---- MODULE Spec2Model ----
(***************************************************************************)
(* Model of the users/tasks REST service: the two Mongo collections, the   *)
(* request handlers of routes/tasks.js and routes/users.js, and the two    *)
(* reference synchronizers that keep Task.assignedUser/assignedUserName     *)
(* and User.pendingTasks in step.                                           *)
(*                                                                          *)
(* Strings are sequences of character codes.  A positive code k stands for *)
(* the 24-hex text of the ObjectId of task k (one block), SpaceCh is a     *)
(* blank, JunkCh is any other printable text ("null", "abc").  User ids    *)
(* are the integers 1..MaxUsers, NoUser is the empty string "".            *)
(***************************************************************************)
EXTENDS Integers, Sequences, FiniteSets, TLC

\* ---------------------------------------------------------------- bounds
MaxUsers == 2
MaxTasks == 2
MaxPend == 1
MaxSyncRuns == 2

\* ------------------------------------------------------------ vocabulary
\* character codes of id texts
SpaceCh == 0
JunkCh == -1
NullCh == -2
\* assignedUser "" and a malformed id text in a path or body id
NoUser == 0
BadId == -1

UserIds == 1..MaxUsers
TaskIds == 1..MaxTasks
Names == {"n1", "n2"}
Unassigned == "unassigned"
Absent == "absent"

\* JavaScript null as an array entry, and the text String(null) gives.
NullVal == <<NullCh>>
NullText == <<JunkCh>>

TaskIdStr(k) == <<k>>
PaddedIdStr(k) == <<SpaceCh, k>>

\* String(x) of an array entry or id value.
JsString(v) == IF v = NullVal THEN NullText ELSE v

RECURSIVE TrimLeft(_)
TrimLeft(s) ==
    IF s # <<>> /\ Head(s) = SpaceCh THEN TrimLeft(Tail(s)) ELSE s

RECURSIVE TrimRight(_)
TrimRight(s) ==
    IF s # <<>> /\ s[Len(s)] = SpaceCh
    THEN TrimRight(SubSeq(s, 1, Len(s) - 1))
    ELSE s

\* String.prototype.trim
Trim(s) == TrimRight(TrimLeft(s))

\* mongoose.Types.ObjectId.isValid on a string: exactly one ObjectId block.
isValidObjectId(s) == Len(s) = 1 /\ s[1] >= 1

\* The task an ObjectId text names (0 when it is no ObjectId).
TaskOfStr(s) == IF isValidObjectId(s) THEN s[1] ELSE 0

\* Faulty variant: the string form is not trimmed.
toIdStrNoTrim(val) ==
    IF val = NullVal THEN <<>> ELSE JsString(val)

toIdStr(val) ==
    IF val = NullVal THEN <<>> ELSE Trim(JsString(val))

SeqHas(s, x) == \E i \in 1..Len(s) : s[i] = x

RECURSIVE toIdStrLoop(_, _)
toIdStrLoop(v, out) ==
    IF v = <<>> THEN out
    ELSE LET s == toIdStr(Head(v))
         IN  toIdStrLoop(Tail(v),
                 IF s # <<>> /\ ~SeqHas(out, s) THEN Append(out, s) ELSE out)

\* A request's pendingTasks is [kind |-> "undefined" | "nonarray" | "array",
\* arr |-> the entries].
toIdStrArray(v) ==
    IF v.kind # "array" THEN <<>> ELSE toIdStrLoop(v.arr, <<>>)

RECURSIVE MapString(_)
MapString(arr) ==
    IF arr = <<>> THEN <<>> ELSE <<JsString(Head(arr))>> \o MapString(Tail(arr))

\* ------------------------------------------------------------------ state
VARIABLES
    users,      \* the User collection: id -> [name, email, pendingTasks]
    tasks,      \* the Task collection: id -> [completed, assignedUser, assignedUserName]
    nextUser,   \* the next ObjectId the store hands to a created user
    nextTask,   \* the next ObjectId the store hands to a created task
    resp,       \* the one response the observer has logged, with the addressed record's pre-image
    logged,     \* the handlers whose responses the observer may log (fixed at start)
    syncArgs,   \* (before, after) of a stand-alone synchronizer invocation
    syncRuns,   \* how many times it has run
    syncSnap,   \* the User collection after its first run
    flight,     \* the request in progress, with the corrective writes it has yet to issue
    syncFails,  \* how many attempts of the stand-alone synchronizer have failed part-way
    call,       \* a query decoder applied on its own: its argument and its outcome
    qry,        \* the read request (list or get-by-id) answered last, with its outcome
    procs       \* the concurrent requests: each one's handler, position and local values

vars == <<users, tasks, nextUser, nextTask, resp, logged, syncArgs, syncFails, call, qry, syncRuns, syncSnap, flight, procs>>

\* No decoder has been applied, no read request answered.
NoCall == [fn |-> "none"]
NoQuery == [op |-> "none"]

\* TaskSchema / before?.x of a null pre-image
NullTask == [_id |-> 0, completed |-> FALSE, assignedUser |-> NoUser,
             assignedUserName |-> Unassigned]

TaskDoc(T, t) == [_id |-> t, completed |-> T[t].completed,
                  assignedUser |-> T[t].assignedUser,
                  assignedUserName |-> T[t].assignedUserName]

\* --------------------------------------------------- store update operators
\* Faulty variant: a $pull that removes nothing.
PullNone(arr, s) == arr

\* $pull: every occurrence of the value leaves the array.
Pull(arr, s) == SelectSeq(arr, LAMBDA x : x # s)

\* Faulty variant: a $push, which appends even when the value is present.
AddToSetDup(arr, s) == Append(arr, s)

\* $addToSet: appended only when absent.
AddToSet(arr, s) == IF SeqHas(arr, s) THEN arr ELSE Append(arr, s)

\* Faulty variant: the write is never issued.
ApplyUserWriteNone(U, w) == U

\* Faulty variant: the update is applied to every user (updateMany).
ApplyUserWriteAll(U, w) ==
    [u \in DOMAIN U |->
        [U[u] EXCEPT !.pendingTasks =
            IF w.op = "pull" THEN Pull(@, w.s) ELSE AddToSet(@, w.s)]]

\* User.updateOne({_id: uid}, {$pull | $addToSet: {pendingTasks: s}})
ApplyUserWrite(U, w) ==
    IF w.uid \notin DOMAIN U THEN U
    ELSE [U EXCEPT ![w.uid].pendingTasks =
             IF w.op = "pull" THEN Pull(@, w.s) ELSE AddToSet(@, w.s)]

RECURSIVE ApplyUserWrites(_, _)
ApplyUserWrites(U, ws) ==
    IF ws = <<>> THEN U ELSE ApplyUserWrites(ApplyUserWrite(U, Head(ws)), Tail(ws))

Holders(U, s) == {u \in DOMAIN U : SeqHas(U[u].pendingTasks, s)}

\* ------------------------------------------- the work-item synchronizer
\* Faulty variant: the new assignee gets the id even when the task is
\* completed.
SyncWritesAddAlways(before, after) ==
    LET prevUser == before.assignedUser
        nextUser_ == after.assignedUser
        tid == TaskIdStr(after._id)
    IN  (IF prevUser # NoUser /\ prevUser # nextUser_
         THEN <<[op |-> "pull", uid |-> prevUser, s |-> tid]>>
         ELSE <<>>)
        \o
        (IF nextUser_ # NoUser
         THEN <<[op |-> "addToSet", uid |-> nextUser_, s |-> tid]>>
         ELSE <<>>)

\* Faulty variant: the previous assignee is never cleaned.
SyncWritesNextOnly(before, after) ==
    LET nextUser_ == after.assignedUser
        nextCompleted == after.completed
        tid == TaskIdStr(after._id)
    IN  IF nextUser_ # NoUser
        THEN <<[op |-> IF nextCompleted THEN "pull" ELSE "addToSet",
                uid |-> nextUser_, s |-> tid]>>
        ELSE <<>>

\* Faulty variant: the new owner is written before the old owner is cleaned.
SyncWritesAddFirst(before, after) ==
    LET prevUser == before.assignedUser
        nextUser_ == after.assignedUser
        nextCompleted == after.completed
        tid == TaskIdStr(after._id)
    IN  (IF nextUser_ # NoUser
         THEN <<[op |-> IF nextCompleted THEN "pull" ELSE "addToSet",
                 uid |-> nextUser_, s |-> tid]>>
         ELSE <<>>)
        \o
        (IF prevUser # NoUser /\ prevUser # nextUser_
         THEN <<[op |-> "pull", uid |-> prevUser, s |-> tid]>>
         ELSE <<>>)

\* The corrective writes syncUserPendingStrict issues, in order.
SyncUserPendingWrites(before, after) ==
    LET prevUser == before.assignedUser
        nextUser_ == after.assignedUser
        nextCompleted == after.completed
        tid == TaskIdStr(after._id)
    IN  (IF prevUser # NoUser /\ prevUser # nextUser_
         THEN <<[op |-> "pull", uid |-> prevUser, s |-> tid]>>
         ELSE <<>>)
        \o
        (IF nextUser_ # NoUser
         THEN <<[op |-> IF nextCompleted THEN "pull" ELSE "addToSet",
                 uid |-> nextUser_, s |-> tid]>>
         ELSE <<>>)

syncUserPendingStrict(U, before, after) ==
    ApplyUserWrites(U, SyncUserPendingWrites(before, after))

\* ------------------------------------- the actor pending-set synchronizer
RECURSIVE Dedupe(_, _)
Dedupe(s, out) ==
    IF s = <<>> THEN out
    ELSE Dedupe(Tail(s), IF SeqHas(out, Head(s)) THEN out ELSE Append(out, Head(s)))

\* A query on _id casts every listed value to ObjectId; one that is no
\* ObjectId text raises CastError.
CastFails(ids) == \E i \in 1..Len(ids) : ~isValidObjectId(ids[i])

RECURSIVE PullAll(_, _)
PullAll(arr, ss) ==
    IF ss = <<>> THEN arr ELSE PullAll(Pull(arr, Head(ss)), Tail(ss))

\* Result: the two collections after the writes that committed, and
\* whether a CastError ended the run.
syncTasksOnUserPendingChange(U, T, uid, userName, add, del) ==
    LET addedTasks == {t \in DOMAIN T : SeqHas(add, TaskIdStr(t)) /\ ~T[t].completed}
        prevOwnerIds == {T[t].assignedUser : t \in addedTasks} \ {NoUser, uid}
        T1 == [t \in DOMAIN T |->
                 IF t \in addedTasks
                 THEN [T[t] EXCEPT !.assignedUser = uid, !.assignedUserName = userName]
                 ELSE T[t]]
        addedTaskIds == SelectSeq(add, LAMBDA s : TaskOfStr(s) \in addedTasks)
        U1 == [u \in DOMAIN U |->
                 IF u \in prevOwnerIds
                 THEN [U[u] EXCEPT !.pendingTasks = PullAll(@, addedTaskIds)]
                 ELSE U[u]]
        T2 == [t \in DOMAIN T1 |->
                 IF SeqHas(del, TaskIdStr(t)) /\ T1[t].assignedUser = uid
                 THEN [T1[t] EXCEPT !.assignedUser = NoUser,
                                    !.assignedUserName = Unassigned]
                 ELSE T1[t]]
    IN  IF CastFails(add) THEN [U |-> U, T |-> T, err |-> TRUE]
        ELSE IF del = <<>> THEN [U |-> U1, T |-> T1, err |-> FALSE]
        ELSE IF CastFails(del) THEN [U |-> U1, T |-> T1, err |-> TRUE]
        ELSE [U |-> U1, T |-> T2, err |-> FALSE]

\* ------------------------------------------------------------- e-mails
\* E-mail texts: code 0 is a blank, 11.. are lower-case letters, 21.. the
\* same letters in upper case.
ToLower(c) == IF c >= 21 THEN c - 10 ELSE c

RECURSIVE LowerAll(_)
LowerAll(s) ==
    IF s = <<>> THEN <<>> ELSE <<ToLower(Head(s))>> \o LowerAll(Tail(s))

\* Faulty variant: the schema trims but does not lower-case.
NormEmailTrimOnly(e) == Trim(e)

\* UserSchema.email: trim, lowercase
NormEmail(e) == LowerAll(Trim(e))

RawEmails == {<<11>>, <<SpaceCh, 21>>, <<12>>}
\* an e-mail that is missing from the body, or ""
NoEmail == <<>>

\* unique index on email
EmailTaken(U, e, self) == \E u \in DOMAIN U : u # self /\ U[u].email = e

\* ------------------------------------------------------- request inputs
AssignInputs == {NoUser, BadId} \cup UserIds
NameInputs == {Absent, "n1"}

\* A task body: "fields" says whether name and deadline are usable (a
\* required one missing, a deadline no Date can be cast from, or both fine).
TaskBody(fields, completed, au, aun) ==
    [fields |-> fields, completed |-> completed, assignedUser |-> au,
     assignedUserName |-> aun]

TaskBodies ==
    {TaskBody("missing", FALSE, NoUser, Absent),
     TaskBody("invalid", FALSE, NoUser, Absent)}
        \cup {TaskBody("valid", c, au, aun) :
                c \in BOOLEAN, au \in AssignInputs, aun \in NameInputs}

RawEntries ==
    {TaskIdStr(k) : k \in TaskIds} \cup {PaddedIdStr(1), <<JunkCh>>}
RawArrays == UNION {[1..n -> RawEntries] : n \in 0..MaxPend}
NoPending == [kind |-> "undefined", arr |-> <<>>]
PendingInputs ==
    {NoPending, [kind |-> "nonarray", arr |-> <<>>]}
        \cup {[kind |-> "array", arr |-> a] : a \in RawArrays}

UserBody(name, email, pt) == [name |-> name, email |-> email, pendingTasks |-> pt]

UserBodies ==
    {UserBody(Absent, <<11>>, NoPending), UserBody("n1", NoEmail, NoPending)}
        \cup {UserBody(n, e, pt) : n \in Names, e \in RawEmails, pt \in PendingInputs}

\* The bodies worth sending to /:id: a handler that finds no record answers
\* 404 before it reads the body.
TaskBodiesFor(found) ==
    IF found THEN TaskBodies ELSE {TaskBody("missing", FALSE, NoUser, Absent)}

UserBodiesFor(found) ==
    IF found THEN UserBodies ELSE {UserBody(Absent, <<11>>, NoPending)}

NoTaskBody == TaskBody("missing", FALSE, NoUser, Absent)

NoUserBody == UserBody(Absent, NoEmail, NoPending)

IdleResp ==
    [op |-> "none", status |-> 0, id |-> 0, body |-> NoTaskBody,
     before |-> NullTask, held |-> {}, ubody |-> NoUserBody,
     preUsers |-> <<>>, preTasks |-> <<>>]

\* No request in progress.
NoFlight ==
    [op |-> "none", id |-> 0, status |-> 0, writes |-> <<>>, body |-> NoTaskBody,
     ubody |-> NoUserBody, preUsers |-> <<>>, preTasks |-> <<>>]

\* The response of a request: the handler, the status, the addressed id, the
\* task body it carried, the addressed task's pre-image, the users whose
\* pendingTasks held that task's id when the request arrived, the user body
\* it carried and the two collections as the request found them.  The observer
\* logs at most one response, of a handler in "logged", and follows the run
\* no further once it has; every other response leaves resp idle.
Resp(op, status, id, body, before, held) ==
    IF op \in logged
    THEN {IdleResp,
          [op |-> op, status |-> status, id |-> id, body |-> body,
           before |-> before, held |-> held, ubody |-> NoUserBody,
           preUsers |-> users, preTasks |-> tasks]}
    ELSE {IdleResp}

\* The response of a request to /api/users, with the body it carried.
RespUser(op, status, id, ubody) ==
    IF op \in logged
    THEN {IdleResp,
          [op |-> op, status |-> status, id |-> id, body |-> NoTaskBody,
           before |-> NullTask, held |-> {}, ubody |-> ubody,
           preUsers |-> users, preTasks |-> tasks]}
    ELSE {IdleResp}

Observing == resp.op = "none"

\* A request answered without any store write.
Reject(op, status, id) ==
    /\ resp' \in Resp(op, status, id, NoTaskBody, NullTask, {})
    /\ UNCHANGED <<users, tasks, nextUser, nextTask, logged, syncArgs, syncFails, call, qry, syncRuns, syncSnap, flight, procs>>

\* Faulty variant: the addressed task is saved with the body's assignedUser
\* before the request is rejected.
RejectTaskLate(op, status, id, body) ==
    /\ resp' \in Resp(op, status, id, body, NullTask, {})
    /\ tasks' = IF id \in DOMAIN tasks
                THEN [tasks EXCEPT ![id].assignedUser = body.assignedUser]
                ELSE tasks
    /\ UNCHANGED <<users, nextUser, nextTask, logged, syncArgs, syncFails, call, qry, syncRuns, syncSnap, flight, procs>>

\* A request to /api/tasks that carried a body, answered without any store
\* write.
RejectTask(op, status, id, body) ==
    /\ resp' \in Resp(op, status, id, body, NullTask, {})
    /\ UNCHANGED <<users, tasks, nextUser, nextTask, logged, syncArgs, syncFails, call, qry, syncRuns, syncSnap, flight, procs>>

\* The same, for a request to /api/users.
RejectUser(op, status, id, ubody) ==
    /\ resp' \in RespUser(op, status, id, ubody)
    /\ UNCHANGED <<users, tasks, nextUser, nextTask, logged, syncArgs, syncFails, call, qry, syncRuns, syncSnap, flight, procs>>

\* Faulty variant: a supplied assignedUserName is not compared.
AssignRejectedAnyName(U, au, aun) ==
    \/ au = BadId
    \/ au # NoUser /\ au \notin DOMAIN U

\* The 400 answers of the assignedUser checks shared by POST and PUT /api/tasks.
AssignRejected(U, au, aun) ==
    \/ au = BadId
    \/ au # NoUser /\ au \notin DOMAIN U
    \/ au # NoUser /\ au \in DOMAIN U /\ aun # Absent /\ aun # U[au].name

AssignedName(U, au) == IF au = NoUser THEN Unassigned ELSE U[au].name

\* The stored fields of a task document.
TaskRec(doc) ==
    [completed |-> doc.completed, assignedUser |-> doc.assignedUser,
     assignedUserName |-> doc.assignedUserName]

\* ------------------------------------------------------ /api/tasks handlers
PostTask(b) ==
    IF b.fields = "missing" THEN RejectTask("postTask", 400, 0, b)
    ELSE IF AssignRejected(users, b.assignedUser, b.assignedUserName) THEN RejectTask("postTask", 400, 0, b)
    ELSE IF b.fields = "invalid" THEN RejectTask("postTask", 400, 0, b)
    ELSE LET t == nextTask
             doc == [_id |-> t, completed |-> b.completed,
                     assignedUser |-> b.assignedUser,
                     assignedUserName |-> AssignedName(users, b.assignedUser)]
         IN  /\ nextTask <= MaxTasks
             /\ tasks' = [x \in DOMAIN tasks \cup {t} |->
                            IF x = t THEN TaskRec(doc) ELSE tasks[x]]
             /\ nextTask' = nextTask + 1
             /\ users' = syncUserPendingStrict(users, NullTask, doc)
             /\ resp' \in Resp("postTask", 201, t, b, NullTask, Holders(users, TaskIdStr(t)))
             /\ UNCHANGED <<nextUser, logged, syncArgs, syncFails, call, qry, syncRuns, syncSnap, flight, procs>>

PutTask(id, b) ==
    IF id = BadId \/ id \notin DOMAIN tasks THEN RejectTask("putTask", 404, 0, b)
    ELSE IF b.fields = "missing" THEN RejectTask("putTask", 400, id, b)
    ELSE IF AssignRejected(users, b.assignedUser, b.assignedUserName) THEN RejectTask("putTask", 400, id, b)
    ELSE IF b.fields = "invalid" THEN RejectTask("putTask", 400, id, b)
    ELSE LET before == TaskDoc(tasks, id)
             after == [_id |-> id, completed |-> b.completed,
                       assignedUser |-> b.assignedUser,
                       assignedUserName |-> AssignedName(users, b.assignedUser)]
         IN  /\ tasks' = [tasks EXCEPT ![id] = TaskRec(after)]
             /\ users' = syncUserPendingStrict(users, before, after)
             /\ resp' \in Resp("putTask", 200, id, b, before, Holders(users, TaskIdStr(id)))
             /\ UNCHANGED <<nextUser, nextTask, logged, syncArgs, syncFails, call, qry, syncRuns, syncSnap, flight, procs>>

DeleteTask(id) ==
    IF id = BadId \/ id \notin DOMAIN tasks THEN Reject("deleteTask", 404, 0)
    ELSE LET before == TaskDoc(tasks, id)
         IN  /\ tasks' = [x \in DOMAIN tasks \ {id} |-> tasks[x]]
             /\ users' = IF before.assignedUser # NoUser
                         THEN ApplyUserWrite(users,
                                  [op |-> "pull", uid |-> before.assignedUser,
                                   s |-> TaskIdStr(id)])
                         ELSE users
             /\ resp' \in Resp("deleteTask", 200, id, NoTaskBody, before, Holders(users, TaskIdStr(id)))
             /\ UNCHANGED <<nextUser, nextTask, logged, syncArgs, syncFails, call, qry, syncRuns, syncSnap, flight, procs>>

\* ------------------------------------------------------ /api/users handlers
\* Faulty variant: only the existence of each task is checked.
PendingRejectedExistOnly(T, nowIds) ==
    \E i \in 1..Len(nowIds) :
        ~isValidObjectId(nowIds[i]) \/ TaskOfStr(nowIds[i]) \notin DOMAIN T

\* The 400 answers of the pendingTasks validation shared by POST and PUT.
PendingRejected(T, nowIds) ==
    \/ \E i \in 1..Len(nowIds) :
          ~isValidObjectId(nowIds[i]) \/ TaskOfStr(nowIds[i]) \notin DOMAIN T
    \/ \E i \in 1..Len(nowIds) :
          TaskOfStr(nowIds[i]) \in DOMAIN T /\ T[TaskOfStr(nowIds[i])].completed

\* pendingTasks as POST /api/users hands it to User.create
CreatedPending(pt) == IF pt.kind = "array" THEN MapString(pt.arr) ELSE <<>>

PostUser(b) ==
    LET nowIds == toIdStrArray(b.pendingTasks)
        u == nextUser
        doc == [name |-> b.name, email |-> NormEmail(b.email),
                pendingTasks |-> CreatedPending(b.pendingTasks)]
        U0 == [x \in DOMAIN users \cup {u} |-> IF x = u THEN doc ELSE users[x]]
        r == IF nowIds # <<>>
             THEN syncTasksOnUserPendingChange(U0, tasks, u, b.name, nowIds, <<>>)
             ELSE [U |-> U0, T |-> tasks, err |-> FALSE]
    IN  IF b.name = Absent \/ b.email = NoEmail THEN RejectUser("postUser", 400, 0, b)
        ELSE IF PendingRejected(tasks, nowIds) THEN RejectUser("postUser", 400, 0, b)
        ELSE IF EmailTaken(users, NormEmail(b.email), 0) THEN RejectUser("postUser", 400, 0, b)
        ELSE /\ nextUser <= MaxUsers
             /\ users' = r.U
             /\ tasks' = r.T
             /\ nextUser' = nextUser + 1
             /\ resp' \in RespUser("postUser", IF r.err THEN 400 ELSE 201, u, b)
             /\ UNCHANGED <<nextTask, logged, syncArgs, syncFails, call, qry, syncRuns, syncSnap, flight, procs>>

\* Faulty variant: completed tasks keep the old name.
RenameIncompleteTasks(T, uid, name) ==
    [t \in DOMAIN T |->
        IF T[t].assignedUser = uid /\ ~T[t].completed
        THEN [T[t] EXCEPT !.assignedUserName = name]
        ELSE T[t]]

\* Faulty variant: the new name is written to every task.
RenameAllTasks(T, uid, name) ==
    [t \in DOMAIN T |-> [T[t] EXCEPT !.assignedUserName = name]]

\* Task.updateMany({assignedUser: uid}, {$set: {assignedUserName: name}})
RenameTasks(T, uid, name) ==
    [t \in DOMAIN T |->
        IF T[t].assignedUser = uid THEN [T[t] EXCEPT !.assignedUserName = name]
        ELSE T[t]]

PutUser(id, b) ==
    IF id = BadId \/ id \notin DOMAIN users THEN RejectUser("putUser", 404, 0, b)
    ELSE IF b.name = Absent \/ b.email = NoEmail THEN RejectUser("putUser", 400, id, b)
    ELSE
    LET hasNow == b.pendingTasks.kind # "undefined"
        nowIds == toIdStrArray(b.pendingTasks)
        oldName == users[id].name
        oldSet == Dedupe(users[id].pendingTasks, <<>>)
        U0 == [users EXCEPT ![id] =
                  [name |-> b.name, email |-> NormEmail(b.email),
                   pendingTasks |-> IF hasNow THEN nowIds ELSE @.pendingTasks]]
        added == SelectSeq(nowIds, LAMBDA x : ~SeqHas(oldSet, x))
        removed == SelectSeq(oldSet, LAMBDA x : ~SeqHas(nowIds, x))
        r == IF hasNow
             THEN syncTasksOnUserPendingChange(U0, tasks, id, b.name, added, removed)
             ELSE [U |-> U0, T |-> tasks, err |-> FALSE]
    IN  IF PendingRejected(tasks, nowIds) THEN RejectUser("putUser", 400, id, b)
        ELSE IF EmailTaken(users, NormEmail(b.email), id) THEN RejectUser("putUser", 400, id, b)
        ELSE /\ users' = r.U
             /\ tasks' = IF ~r.err /\ oldName # b.name
                         THEN RenameTasks(r.T, id, b.name)
                         ELSE r.T
             /\ resp' \in RespUser("putUser", IF r.err THEN 400 ELSE 200, id, b)
             /\ UNCHANGED <<nextUser, nextTask, logged, syncArgs, syncFails, call, qry, syncRuns, syncSnap, flight, procs>>

\* Faulty variant: completed tasks stay assigned to the deleted user.
UnassignIncompleteTasks(T, uid) ==
    [t \in DOMAIN T |->
        IF T[t].assignedUser = uid /\ ~T[t].completed
        THEN [T[t] EXCEPT !.assignedUser = NoUser, !.assignedUserName = Unassigned]
        ELSE T[t]]

\* Task.updateMany({assignedUser: uid}, {$set: {assignedUser: "", ...}})
UnassignTasks(T, uid) ==
    [t \in DOMAIN T |->
        IF T[t].assignedUser = uid
        THEN [T[t] EXCEPT !.assignedUser = NoUser, !.assignedUserName = Unassigned]
        ELSE T[t]]

\* Faulty variant: the user is not looked up before it is deleted.
DeleteUserNoLookup(id) ==
    IF id = BadId THEN Reject("deleteUser", 404, 0)
    ELSE /\ users' = [x \in DOMAIN users \ {id} |-> users[x]]
         /\ tasks' = UnassignTasks(tasks, id)
         /\ resp' \in Resp("deleteUser", 200, id, NoTaskBody, NullTask, {})
         /\ UNCHANGED <<nextUser, nextTask, logged, syncArgs, syncFails, call, qry, syncRuns, syncSnap, flight, procs>>

DeleteUser(id) ==
    IF id = BadId \/ id \notin DOMAIN users THEN Reject("deleteUser", 404, 0)
    ELSE /\ users' = [x \in DOMAIN users \ {id} |-> users[x]]
         /\ tasks' = UnassignTasks(tasks, id)
         /\ resp' \in Resp("deleteUser", 200, id, NoTaskBody, NullTask, {})
         /\ UNCHANGED <<nextUser, nextTask, logged, syncArgs, syncFails, call, qry, syncRuns, syncSnap, flight, procs>>

\* ---------------------------------------------------------- specification
Init ==
    /\ users = <<>>
    /\ tasks = <<>>
    /\ nextUser = 1
    /\ nextTask = 1
    /\ resp = IdleResp
    /\ logged = {}
    /\ syncArgs = [before |-> NullTask, after |-> NullTask]
    /\ syncRuns = 0
    /\ syncSnap = <<>>
    /\ flight = NoFlight
    /\ syncFails = 0
    /\ call = NoCall
    /\ qry = NoQuery
    /\ procs = <<>>

Next ==
    \/ \E b \in TaskBodies : Observing /\ PostTask(b)
    \/ \E id \in TaskIds \cup {BadId} :
          \E b \in TaskBodiesFor(id \in DOMAIN tasks) : Observing /\ PutTask(id, b)
    \/ \E id \in TaskIds \cup {BadId} : Observing /\ DeleteTask(id)
    \/ \E b \in UserBodies : Observing /\ PostUser(b)
    \/ \E id \in UserIds \cup {BadId} :
          \E b \in UserBodiesFor(id \in DOMAIN users) : Observing /\ PutUser(id, b)
    \/ \E id \in UserIds \cup {BadId} : Observing /\ DeleteUser(id)

Spec == Init /\ [][Next]_vars

\* The same service, with the responses of PUT /api/tasks/:id logged.
InitPutTask ==
    /\ users = <<>>
    /\ tasks = <<>>
    /\ nextUser = 1
    /\ nextTask = 1
    /\ resp = IdleResp
    /\ logged = {"putTask"}
    /\ syncArgs = [before |-> NullTask, after |-> NullTask]
    /\ syncRuns = 0
    /\ syncSnap = <<>>
    /\ flight = NoFlight
    /\ syncFails = 0
    /\ call = NoCall
    /\ qry = NoQuery
    /\ procs = <<>>

SpecPutTask == InitPutTask /\ [][Next]_vars

\* The same service, with the response of any one request logged.
Handlers == {"postTask", "putTask", "deleteTask", "postUser", "putUser", "deleteUser"}

InitObserved ==
    /\ users = <<>>
    /\ tasks = <<>>
    /\ nextUser = 1
    /\ nextTask = 1
    /\ resp = IdleResp
    /\ logged = Handlers
    /\ syncArgs = [before |-> NullTask, after |-> NullTask]
    /\ syncRuns = 0
    /\ syncSnap = <<>>
    /\ flight = NoFlight
    /\ syncFails = 0
    /\ call = NoCall
    /\ qry = NoQuery
    /\ procs = <<>>

SpecObserved == InitObserved /\ [][Next]_vars

\* ------------------------------------------- requests, write by write
\* The same handlers with every store write a step of its own: the primary
\* write (create, save, delete) is committed when the request is taken up,
\* the corrective writes follow one at a time in the order the code awaits
\* them, and any of them may fail in the store.  One request is in progress
\* at a time.

\* The corrective writes syncTasksOnUserPendingChange issues, in order, after
\* its Task.find on the collection T.
SyncTasksWrites(T, uid, userName, add, del) ==
    LET addedTasks == {t \in DOMAIN T : SeqHas(add, TaskIdStr(t)) /\ ~T[t].completed}
        prevOwnerIds == {T[t].assignedUser : t \in addedTasks} \ {NoUser, uid}
        addedTaskIds == SelectSeq(add, LAMBDA x : TaskOfStr(x) \in addedTasks)
    IN  (IF addedTaskIds # <<>>
         THEN <<[op |-> "assign", ids |-> addedTaskIds, uid |-> uid, name |-> userName]>>
         ELSE <<>>)
        \o
        (IF prevOwnerIds # {} /\ addedTaskIds # <<>>
         THEN <<[op |-> "pullMany", owners |-> prevOwnerIds, ids |-> addedTaskIds]>>
         ELSE <<>>)
        \o
        (IF del # <<>>
         THEN <<[op |-> "unassign", ids |-> del, uid |-> uid]>>
         ELSE <<>>)

\* A write whose query mongoose cannot cast.
RaisesCastError(w) == w.op = "unassign" /\ CastFails(w.ids)

\* One corrective write, committed.
ApplyWrite(U, T, w) ==
    CASE w.op \in {"pull", "addToSet"} -> [U |-> ApplyUserWrite(U, w), T |-> T]
      [] w.op = "assign" ->
            [U |-> U,
             T |-> [t \in DOMAIN T |->
                      IF SeqHas(w.ids, TaskIdStr(t))
                      THEN [T[t] EXCEPT !.assignedUser = w.uid,
                                        !.assignedUserName = w.name]
                      ELSE T[t]]]
      [] w.op = "pullMany" ->
            [U |-> [u \in DOMAIN U |->
                      IF u \in w.owners
                      THEN [U[u] EXCEPT !.pendingTasks = PullAll(@, w.ids)]
                      ELSE U[u]],
             T |-> T]
      [] w.op = "unassign" ->
            [U |-> U,
             T |-> [t \in DOMAIN T |->
                      IF SeqHas(w.ids, TaskIdStr(t)) /\ T[t].assignedUser = w.uid
                      THEN [T[t] EXCEPT !.assignedUser = NoUser,
                                        !.assignedUserName = Unassigned]
                      ELSE T[t]]]
      [] w.op = "rename" -> [U |-> U, T |-> RenameTasks(T, w.uid, w.name)]
      [] w.op = "unassignAll" -> [U |-> U, T |-> UnassignTasks(T, w.uid)]

\* Faulty variant: every error is answered as a client error.
CatchStatusAlways400(op, err) == 400

\* The catch blocks: CastError is answered 400 (404 by the DELETE handlers),
\* anything else goes to next(e), which answers 500.
CatchStatus(op, err) ==
    IF err = "CastError"
    THEN IF op \in {"deleteTask", "deleteUser"} THEN 404 ELSE 400
    ELSE 500

Flight(op, id, status, writes, body, ubody) ==
    [op |-> op, id |-> id, status |-> status, writes |-> writes, body |-> body,
     ubody |-> ubody, preUsers |-> users, preTasks |-> tasks]

\* The response of the request in progress.
FlightRecord(status) ==
    LET onTask == flight.op \in {"putTask", "deleteTask"}
    IN  [op |-> flight.op, status |-> status, id |-> flight.id,
         body |-> flight.body,
         before |-> IF onTask THEN TaskDoc(flight.preTasks, flight.id) ELSE NullTask,
         held |-> IF onTask THEN Holders(flight.preUsers, TaskIdStr(flight.id)) ELSE {},
         ubody |-> flight.ubody,
         preUsers |-> flight.preUsers, preTasks |-> flight.preTasks]

FlightResp(status) ==
    IF flight.op \in logged THEN {IdleResp, FlightRecord(status)} ELSE {IdleResp}

Idle == Observing /\ flight.op = "none"

AcceptedTask(b) ==
    b.fields = "valid" /\ ~AssignRejected(users, b.assignedUser, b.assignedUserName)

AcceptedUser(b, self) ==
    /\ b.name # Absent /\ b.email # NoEmail
    /\ ~PendingRejected(tasks, toIdStrArray(b.pendingTasks))
    /\ ~EmailTaken(users, NormEmail(b.email), self)

BeginPostTask(b) ==
    IF ~AcceptedTask(b) THEN PostTask(b)
    ELSE LET t == nextTask
             doc == [_id |-> t, completed |-> b.completed,
                     assignedUser |-> b.assignedUser,
                     assignedUserName |-> AssignedName(users, b.assignedUser)]
         IN  /\ nextTask <= MaxTasks
             /\ tasks' = [x \in DOMAIN tasks \cup {t} |->
                            IF x = t THEN TaskRec(doc) ELSE tasks[x]]
             /\ nextTask' = nextTask + 1
             /\ flight' = Flight("postTask", t, 201,
                                 SyncUserPendingWrites(NullTask, doc), b, NoUserBody)
             /\ UNCHANGED <<users, nextUser, resp, logged, syncArgs, syncFails, call, qry, syncRuns, syncSnap, procs>>

BeginPutTask(id, b) ==
    IF id = BadId \/ id \notin DOMAIN tasks \/ ~AcceptedTask(b) THEN PutTask(id, b)
    ELSE LET before == TaskDoc(tasks, id)
             after == [_id |-> id, completed |-> b.completed,
                       assignedUser |-> b.assignedUser,
                       assignedUserName |-> AssignedName(users, b.assignedUser)]
         IN  /\ tasks' = [tasks EXCEPT ![id] = TaskRec(after)]
             /\ flight' = Flight("putTask", id, 200,
                                 SyncUserPendingWrites(before, after), b, NoUserBody)
             /\ UNCHANGED <<users, nextUser, nextTask, resp, logged, syncArgs, syncFails, call, qry, syncRuns, syncSnap, procs>>

\* Faulty variant: the deletion hook runs while the task is still stored.
BeginDeleteTaskHookFirst(id) ==
    IF id = BadId \/ id \notin DOMAIN tasks THEN DeleteTask(id)
    ELSE LET before == TaskDoc(tasks, id)
         IN  /\ users' = IF before.assignedUser # NoUser
                         THEN ApplyUserWrite(users,
                                  [op |-> "pull", uid |-> before.assignedUser,
                                   s |-> TaskIdStr(id)])
                         ELSE users
             /\ flight' = Flight("deleteTask", id, 200, <<>>, NoTaskBody, NoUserBody)
             /\ UNCHANGED <<tasks, nextUser, nextTask, resp, logged, syncArgs, syncFails, call, qry, syncRuns, syncSnap, procs>>

BeginDeleteTask(id) ==
    IF id = BadId \/ id \notin DOMAIN tasks THEN DeleteTask(id)
    ELSE LET before == TaskDoc(tasks, id)
         IN  /\ tasks' = [x \in DOMAIN tasks \ {id} |-> tasks[x]]
             /\ flight' = Flight("deleteTask", id, 200,
                                 IF before.assignedUser # NoUser
                                 THEN <<[op |-> "pull", uid |-> before.assignedUser,
                                         s |-> TaskIdStr(id)]>>
                                 ELSE <<>>,
                                 NoTaskBody, NoUserBody)
             /\ UNCHANGED <<users, nextUser, nextTask, resp, logged, syncArgs, syncFails, call, qry, syncRuns, syncSnap, procs>>

BeginPostUser(b) ==
    IF ~AcceptedUser(b, 0) THEN PostUser(b)
    ELSE LET nowIds == toIdStrArray(b.pendingTasks)
             u == nextUser
             doc == [name |-> b.name, email |-> NormEmail(b.email),
                     pendingTasks |-> CreatedPending(b.pendingTasks)]
         IN  /\ nextUser <= MaxUsers
             /\ users' = [x \in DOMAIN users \cup {u} |-> IF x = u THEN doc ELSE users[x]]
             /\ nextUser' = nextUser + 1
             /\ flight' = Flight("postUser", u, 201,
                                 IF nowIds # <<>>
                                 THEN SyncTasksWrites(tasks, u, b.name, nowIds, <<>>)
                                 ELSE <<>>,
                                 NoTaskBody, b)
             /\ UNCHANGED <<tasks, nextTask, resp, logged, syncArgs, syncFails, call, qry, syncRuns, syncSnap, procs>>

BeginPutUser(id, b) ==
    IF id = BadId \/ id \notin DOMAIN users THEN PutUser(id, b)
    ELSE IF ~AcceptedUser(b, id) THEN PutUser(id, b)
    ELSE LET hasNow == b.pendingTasks.kind # "undefined"
             nowIds == toIdStrArray(b.pendingTasks)
             oldName == users[id].name
             oldSet == Dedupe(users[id].pendingTasks, <<>>)
             added == SelectSeq(nowIds, LAMBDA x : ~SeqHas(oldSet, x))
             removed == SelectSeq(oldSet, LAMBDA x : ~SeqHas(nowIds, x))
         IN  /\ users' = [users EXCEPT ![id] =
                            [name |-> b.name, email |-> NormEmail(b.email),
                             pendingTasks |-> IF hasNow THEN nowIds ELSE @.pendingTasks]]
             /\ flight' = Flight("putUser", id, 200,
                                 (IF hasNow
                                  THEN SyncTasksWrites(tasks, id, b.name, added, removed)
                                  ELSE <<>>)
                                 \o
                                 (IF oldName # b.name
                                  THEN <<[op |-> "rename", uid |-> id, name |-> b.name]>>
                                  ELSE <<>>),
                                 NoTaskBody, b)
             /\ UNCHANGED <<tasks, nextUser, nextTask, resp, logged, syncArgs, syncFails, call, qry, syncRuns, syncSnap, procs>>

BeginDeleteUser(id) ==
    IF id = BadId \/ id \notin DOMAIN users THEN DeleteUser(id)
    ELSE /\ users' = [x \in DOMAIN users \ {id} |-> users[x]]
         /\ flight' = Flight("deleteUser", id, 200,
                             <<[op |-> "unassignAll", uid |-> id]>>,
                             NoTaskBody, NoUserBody)
         /\ UNCHANGED <<tasks, nextUser, nextTask, resp, logged, syncArgs, syncFails, call, qry, syncRuns, syncSnap, procs>>

\* The next corrective write is issued: it commits, or its query cannot be
\* cast and the catch block answers.
CommitWrite ==
    /\ Observing
    /\ flight.writes # <<>>
    /\ LET w == Head(flight.writes)
           r == ApplyWrite(users, tasks, w)
       IN  IF RaisesCastError(w)
           THEN /\ flight' = NoFlight
                /\ resp' \in FlightResp(CatchStatus(flight.op, "CastError"))
                /\ UNCHANGED <<users, tasks>>
           ELSE /\ users' = r.U
                /\ tasks' = r.T
                /\ flight' = [flight EXCEPT !.writes = Tail(@)]
                /\ UNCHANGED resp
    /\ UNCHANGED <<nextUser, nextTask, logged, syncArgs, syncFails, call, qry, syncRuns, syncSnap, procs>>

\* The next corrective write fails in the store: the handler's catch block
\* answers, and the observer logs that response and follows the run no further.
StoreError ==
    /\ Observing
    /\ flight.writes # <<>>
    /\ ~RaisesCastError(Head(flight.writes))
    /\ flight' = NoFlight
    /\ resp' = FlightRecord(CatchStatus(flight.op, "StoreError"))
    /\ UNCHANGED <<users, tasks, nextUser, nextTask, logged, syncArgs, syncFails, call, qry, syncRuns, syncSnap, procs>>

\* Every corrective write is committed: the handler answers.
Finish ==
    /\ Observing
    /\ flight.op # "none"
    /\ flight.writes = <<>>
    /\ flight' = NoFlight
    /\ resp' \in FlightResp(flight.status)
    /\ UNCHANGED <<users, tasks, nextUser, nextTask, logged, syncArgs, syncFails, call, qry, syncRuns, syncSnap, procs>>

NextSteps ==
    \/ \E b \in TaskBodies : Idle /\ BeginPostTask(b)
    \/ \E id \in TaskIds \cup {BadId} :
          \E b \in TaskBodiesFor(id \in DOMAIN tasks) : Idle /\ BeginPutTask(id, b)
    \/ \E id \in TaskIds \cup {BadId} : Idle /\ BeginDeleteTask(id)
    \/ \E b \in UserBodies : Idle /\ BeginPostUser(b)
    \/ \E id \in UserIds \cup {BadId} :
          \E b \in UserBodiesFor(id \in DOMAIN users) : Idle /\ BeginPutUser(id, b)
    \/ \E id \in UserIds \cup {BadId} : Idle /\ BeginDeleteUser(id)
    \/ CommitWrite
    \/ StoreError
    \/ Finish

SpecSteps == Init /\ [][NextSteps]_vars

\* ------------------------------------------------ the synchronizer alone
\* syncUserPendingStrict on its own: any User collection whose pendingTasks
\* hold task ids, any pre-image and any saved task.
SyncPendings == UNION {[1..n -> {TaskIdStr(k) : k \in TaskIds}] : n \in 0..MaxPend + 1}

SyncAfters ==
    {[_id |-> t, completed |-> c, assignedUser |-> au,
      assignedUserName |-> IF au = NoUser THEN Unassigned ELSE "n1"] :
        t \in TaskIds, c \in BOOLEAN, au \in {NoUser} \cup UserIds}

InitSync ==
    /\ users \in {[u \in UserIds |->
                      [name |-> "n1", email |-> <<10 + u>>, pendingTasks |-> q[u]]] :
                    q \in [UserIds -> SyncPendings]}
    /\ syncArgs \in {[before |-> bf, after |-> af] :
                       bf \in {NullTask} \cup SyncAfters, af \in SyncAfters}
    /\ syncArgs.before._id \in {0, syncArgs.after._id}
    /\ tasks = [t \in {syncArgs.after._id} |-> TaskRec(syncArgs.after)]
    /\ nextUser = MaxUsers + 1
    /\ nextTask = MaxTasks + 1
    /\ resp = IdleResp
    /\ logged = {}
    /\ syncRuns = 0
    /\ syncSnap = <<>>
    /\ flight = NoFlight
    /\ syncFails = 0
    /\ call = NoCall
    /\ qry = NoQuery
    /\ procs = <<>>

SyncRun ==
    /\ syncRuns < MaxSyncRuns
    /\ users' = syncUserPendingStrict(users, syncArgs.before, syncArgs.after)
    /\ syncRuns' = syncRuns + 1
    /\ syncSnap' = IF syncRuns = 0 THEN users' ELSE syncSnap
    /\ UNCHANGED <<tasks, nextUser, nextTask, resp, logged, syncArgs, syncFails, call, qry, flight, procs>>

NextSync == SyncRun

SpecSync == InitSync /\ [][NextSync]_vars

\* ------------------------------- the synchronizer, failing and re-run
MaxSyncFails == 2

\* syncUserPendingStrict from any User collection, as in InitSync; here
\* syncSnap holds what one failure-free run makes of the starting collection.
InitSyncRetry ==
    /\ users \in {[u \in UserIds |->
                      [name |-> "n1", email |-> <<10 + u>>, pendingTasks |-> q[u]]] :
                    q \in [UserIds -> SyncPendings]}
    /\ syncArgs \in {[before |-> bf, after |-> af] :
                       bf \in {NullTask} \cup SyncAfters, af \in SyncAfters}
    /\ syncArgs.before._id \in {0, syncArgs.after._id}
    /\ tasks = [t \in {syncArgs.after._id} |-> TaskRec(syncArgs.after)]
    /\ nextUser = MaxUsers + 1
    /\ nextTask = MaxTasks + 1
    /\ resp = IdleResp
    /\ logged = {}
    /\ syncRuns = 0
    /\ syncSnap = syncUserPendingStrict(users, syncArgs.before, syncArgs.after)
    /\ flight = NoFlight
    /\ syncFails = 0
    /\ call = NoCall
    /\ qry = NoQuery
    /\ procs = <<>>

\* An attempt that fails when k of its corrective writes have committed.
SyncFail(k) ==
    /\ syncRuns = 0
    /\ syncFails < MaxSyncFails
    /\ users' = ApplyUserWrites(users,
                    SubSeq(SyncUserPendingWrites(syncArgs.before, syncArgs.after), 1, k))
    /\ syncFails' = syncFails + 1
    /\ UNCHANGED <<tasks, nextUser, nextTask, resp, logged, syncArgs, call, qry,
                   syncRuns, syncSnap, flight, procs>>

\* The re-run with the same arguments, to completion.
SyncRerun ==
    /\ syncRuns = 0
    /\ users' = syncUserPendingStrict(users, syncArgs.before, syncArgs.after)
    /\ syncRuns' = 1
    /\ UNCHANGED <<tasks, nextUser, nextTask, resp, logged, syncArgs, syncFails, call, qry,
                   syncSnap, flight, procs>>

NextSyncRetry ==
    \/ \E k \in 0..Len(SyncUserPendingWrites(syncArgs.before, syncArgs.after)) : SyncFail(k)
    \/ SyncRerun

SpecSyncRetry == InitSyncRetry /\ [][NextSyncRetry]_vars

\* --------------- the actor pending-set synchronizer, failing and re-run
RECURSIVE ApplyWrites(_, _, _)
ApplyWrites(U, T, ws) ==
    IF ws = <<>> THEN [U |-> U, T |-> T]
    ELSE LET r == ApplyWrite(U, T, Head(ws)) IN ApplyWrites(r.U, r.T, Tail(ws))

\* Task collections in which every task exists.
SyncTaskStates ==
    [TaskIds -> {[completed |-> c, assignedUser |-> au,
                  assignedUserName |-> IF au = NoUser THEN Unassigned ELSE "n1"] :
                    c \in BOOLEAN, au \in {NoUser} \cup UserIds}]

\* The ids, in ascending order, of the incomplete tasks of T assigned to u.
RECURSIVE OwnedFrom(_, _, _)
OwnedFrom(T, u, t) ==
    IF t > MaxTasks THEN <<>>
    ELSE (IF T[t].assignedUser = u /\ ~T[t].completed THEN <<TaskIdStr(t)>> ELSE <<>>)
         \o OwnedFrom(T, u, t + 1)

\* req.body.pendingTasks of a PUT /api/users/:id that passes validation:
\* distinct ids of existing, incomplete tasks.
SyncNowIds(T) ==
    {q \in UNION {[1..n -> {TaskIdStr(t) : t \in TaskIds}] : n \in 0..MaxPend + 1} :
        /\ \A i \in 1..Len(q) : ~T[TaskOfStr(q[i])].completed
        /\ \A i, j \in 1..Len(q) : i # j => q[i] # q[j]}

\* PUT /api/users/:id at the point where user.save() has committed and
\* syncTasksOnUserPendingChange(uid, name, added, removed) is about to be
\* called: before the save each user held exactly the incomplete tasks
\* assigned to them.  syncSnap holds what one failure-free run makes of the
\* two collections.
InitUserSyncRetry ==
    /\ tasks \in SyncTaskStates
    /\ \E uid \in UserIds : \E nowIds \in SyncNowIds(tasks) :
          LET oldSet == OwnedFrom(tasks, uid, 1)
              added == SelectSeq(nowIds, LAMBDA x : ~SeqHas(oldSet, x))
              removed == SelectSeq(oldSet, LAMBDA x : ~SeqHas(nowIds, x))
          IN  /\ users = [u \in UserIds |->
                            [name |-> "n1", email |-> <<10 + u>>,
                             pendingTasks |-> IF u = uid THEN nowIds
                                              ELSE OwnedFrom(tasks, u, 1)]]
              /\ syncArgs = [uid |-> uid, userName |-> "n1",
                             add |-> added, del |-> removed]
    /\ syncSnap = [U |-> syncTasksOnUserPendingChange(users, tasks, syncArgs.uid,
                             syncArgs.userName, syncArgs.add, syncArgs.del).U,
                   T |-> syncTasksOnUserPendingChange(users, tasks, syncArgs.uid,
                             syncArgs.userName, syncArgs.add, syncArgs.del).T]
    /\ nextUser = MaxUsers + 1
    /\ nextTask = MaxTasks + 1
    /\ resp = IdleResp
    /\ logged = {}
    /\ syncRuns = 0
    /\ flight = NoFlight
    /\ syncFails = 0
    /\ call = NoCall
    /\ qry = NoQuery
    /\ procs = <<>>

\* An attempt: it reads the added tasks, then fails when k of the corrective
\* writes it derived from that read have committed.
UserSyncFail(k) ==
    LET ws == SyncTasksWrites(tasks, syncArgs.uid, syncArgs.userName,
                              syncArgs.add, syncArgs.del)
        r == ApplyWrites(users, tasks, SubSeq(ws, 1, k))
    IN  /\ syncRuns = 0
        /\ syncFails < MaxSyncFails
        /\ k <= Len(ws)
        /\ users' = r.U
        /\ tasks' = r.T
        /\ syncFails' = syncFails + 1
        /\ UNCHANGED <<nextUser, nextTask, resp, logged, syncArgs, call, qry,
                       syncRuns, syncSnap, flight, procs>>

\* The re-run with the same arguments, to completion.
UserSyncRerun ==
    LET r == syncTasksOnUserPendingChange(users, tasks, syncArgs.uid,
                 syncArgs.userName, syncArgs.add, syncArgs.del)
    IN  /\ syncRuns = 0
        /\ users' = r.U
        /\ tasks' = r.T
        /\ syncRuns' = 1
        /\ UNCHANGED <<nextUser, nextTask, resp, logged, syncArgs, syncFails, call, qry,
                       syncSnap, flight, procs>>

NextUserSyncRetry ==
    \/ \E k \in 0..3 : UserSyncFail(k)
    \/ UserSyncRerun

SpecUserSyncRetry == InitUserSyncRetry /\ [][NextUserSyncRetry]_vars

\* ----------------------------------------------------- the query decoders
\* A decoded `select`: undefined, null, or an object whose fields carry the
\* JSON values 1, true, 0, false or anything else (here 2).
NoProjection == [kind |-> "undefined", map |-> <<>>]
Projections ==
    {NoProjection, [kind |-> "null", map |-> <<>>]}
        \cup {[kind |-> "object", map |-> f] :
                f \in UNION {[D -> {"1", "true", "0", "false", "2"}] :
                               D \in SUBSET {"_id", "a", "b"}}}

\* The error a decoder throws: err.statusCode and err.message.
Thrown(status, message) == [kind |-> "throw", statusCode |-> status, message |-> message]

IsInclusion(v) == v \in {"1", "true"}
IsExclusion(v) == v \in {"0", "false"}

\* Faulty variant: _id is not excepted from the mixing rule.
sanitizeSelectNoException(sel) ==
    IF sel.kind # "object" THEN NoProjection
    ELSE IF DOMAIN sel.map = {} THEN NoProjection
    ELSE LET isInc == \E f \in DOMAIN sel.map : IsInclusion(sel.map[f])
             isExc == \E f \in DOMAIN sel.map : IsExclusion(sel.map[f])
         IN  IF isInc /\ isExc
             THEN Thrown(400, "Cannot mix inclusion and exclusion in select (except _id).")
             ELSE sel

sanitizeSelect(sel) ==
    IF sel.kind # "object" THEN NoProjection
    ELSE IF DOMAIN sel.map = {} THEN NoProjection
    ELSE LET isInc == \E f \in DOMAIN sel.map : IsInclusion(sel.map[f])
             isExc == \E f \in DOMAIN sel.map : IsExclusion(sel.map[f])
             rest == DOMAIN sel.map \ {"_id"}
             restHasExc == \E f \in rest : IsExclusion(sel.map[f])
         IN  IF isInc /\ isExc /\ restHasExc
             THEN Thrown(400, "Cannot mix inclusion and exclusion in select (except _id).")
             ELSE sel

\* A decoder call that has not returned yet.
Pending == [kind |-> "pending"]

\* sanitizeSelect applied on its own to every decoded projection.
InitSelect ==
    /\ users = <<>>
    /\ tasks = <<>>
    /\ nextUser = 1
    /\ nextTask = 1
    /\ resp = IdleResp
    /\ logged = {}
    /\ syncArgs = [before |-> NullTask, after |-> NullTask]
    /\ syncRuns = 0
    /\ syncSnap = <<>>
    /\ flight = NoFlight
    /\ syncFails = 0
    /\ call \in {[fn |-> "sanitizeSelect", arg |-> sel, out |-> Pending] : sel \in Projections}
    /\ qry = NoQuery
    /\ procs = <<>>

CallSanitizeSelect ==
    /\ call.fn = "sanitizeSelect"
    /\ call.out = Pending
    /\ call' = [call EXCEPT !.out = sanitizeSelect(call.arg)]
    /\ UNCHANGED <<users, tasks, nextUser, nextTask, resp, logged, syncArgs, syncFails, qry,
                   syncRuns, syncSnap, flight, procs>>

SpecSelect == InitSelect /\ [][CallSanitizeSelect]_vars

\* ---- Number(raw), for parseNonNegInt
\* A query-string value is a sequence of one-character strings; the
\* parameter that is missing from the query string is NoRaw.
NoRaw == <<"undefined">>
MaxRawLen == 3
QueryChars == {"0", "1", "7", "e", "x", " ", "-", "."}
RawStrings == UNION {[1..n -> QueryChars] : n \in 0..MaxRawLen}

HexDigits == <<"0", "1", "2", "3", "4", "5", "6", "7", "8", "9",
               "a", "b", "c", "d", "e", "f">>
DigitVal(c) == (CHOOSE i \in 1..16 : HexDigits[i] = c) - 1
AllDec(s) == \A i \in 1..Len(s) : \E k \in 1..10 : HexDigits[k] = s[i]
AllHex(s) == \A i \in 1..Len(s) : \E k \in 1..16 : HexDigits[k] = s[i]

RECURSIVE DigitsValue(_, _, _)
DigitsValue(s, base, acc) ==
    IF s = <<>> THEN acc ELSE DigitsValue(Tail(s), base, acc * base + DigitVal(Head(s)))

RECURSIVE Pow10(_)
Pow10(n) == IF n = 0 THEN 1 ELSE 10 * Pow10(n - 1)

\* StrWhiteSpace is stripped from both ends.
TrimBlanks(s) ==
    LET inked == {i \in 1..Len(s) : s[i] # " "}
    IN  IF inked = {} THEN <<>>
        ELSE SubSeq(s, CHOOSE i \in inked : \A j \in inked : i <= j,
                       CHOOSE i \in inked : \A j \in inked : i >= j)

\* The first position of c in s, 0 when there is none.
FirstIndex(s, c) ==
    IF \E i \in 1..Len(s) : s[i] = c
    THEN CHOOSE i \in 1..Len(s) : s[i] = c /\ \A j \in 1..(i - 1) : s[j] # c
    ELSE 0

\* The values of Number(raw) that parseNonNegInt tells apart: NaN, a number
\* with a fractional part, or an integer with its sign and magnitude.
NaN == [kind |-> "nan", neg |-> FALSE, value |-> 0]
Fraction(neg) == [kind |-> "fraction", neg |-> neg, value |-> 0]
Integer(neg, v) == [kind |-> "integer", neg |-> neg /\ v # 0, value |-> v]

\* StrUnsignedDecimalLiteral: digits, an optional fraction and an optional
\* exponent part.
UnsignedDecimal(neg, body) ==
    LET e == FirstIndex(body, "e")
        mant == IF e = 0 THEN body ELSE SubSeq(body, 1, e - 1)
        expo == IF e = 0 THEN <<>> ELSE SubSeq(body, e + 1, Len(body))
        expNeg == expo # <<>> /\ Head(expo) = "-"
        expDigits == IF expNeg THEN Tail(expo) ELSE expo
        dot == FirstIndex(mant, ".")
        intPart == IF dot = 0 THEN mant ELSE SubSeq(mant, 1, dot - 1)
        fracPart == IF dot = 0 THEN <<>> ELSE SubSeq(mant, dot + 1, Len(mant))
        wellFormed == /\ AllDec(intPart) /\ AllDec(fracPart)
                      /\ Len(intPart) + Len(fracPart) >= 1
                      /\ e # 0 => (expDigits # <<>> /\ AllDec(expDigits))
        m == DigitsValue(intPart \o fracPart, 10, 0)
        x == DigitsValue(expDigits, 10, 0)
        scale == (IF expNeg THEN 0 - x ELSE x) - Len(fracPart)
    IN  IF ~wellFormed THEN NaN
        ELSE IF m = 0 THEN Integer(neg, 0)
        ELSE IF scale >= 0 THEN Integer(neg, m * Pow10(scale))
        ELSE IF m % Pow10(0 - scale) = 0 THEN Integer(neg, m \div Pow10(0 - scale))
        ELSE Fraction(neg)

\* Number(raw) of a string: blanks stripped, "" is 0, 0x... is hexadecimal,
\* anything else a signed decimal literal or NaN.
ToNumber(raw) ==
    LET s == TrimBlanks(raw)
    IN  IF s = <<>> THEN Integer(FALSE, 0)
        ELSE IF Len(s) >= 2 /\ s[1] = "0" /\ s[2] = "x"
        THEN IF Len(s) >= 3 /\ AllHex(SubSeq(s, 3, Len(s)))
             THEN Integer(FALSE, DigitsValue(SubSeq(s, 3, Len(s)), 16, 0))
             ELSE NaN
        ELSE IF Head(s) = "-" THEN UnsignedDecimal(TRUE, Tail(s))
        ELSE UnsignedDecimal(FALSE, s)

\* What a decoder returns: a number, or null (a fallback only).
Returned(v) == [kind |-> "return", value |-> v]
ReturnedNull == [kind |-> "null", value |-> 0]

\* if (!Number.isInteger(n) || n < 0) throw ...; return n
NonNegInt(name, n) ==
    IF n.kind # "integer" \/ n.neg
    THEN Thrown(400, name \o " must be a non-negative integer")
    ELSE Returned(n.value)

parseNonNegInt(name, raw, fallback) ==
    IF raw = NoRaw THEN fallback ELSE NonNegInt(name, ToNumber(raw))

\* parseNonNegInt applied on its own, as parsePagination applies it: "skip"
\* with fallback 0, "limit" with fallback 100 (tasks) or null (users).
DefaultTaskLimit == 100

InitPagination ==
    /\ users = <<>>
    /\ tasks = <<>>
    /\ nextUser = 1
    /\ nextTask = 1
    /\ resp = IdleResp
    /\ logged = {}
    /\ syncArgs = [before |-> NullTask, after |-> NullTask]
    /\ syncRuns = 0
    /\ syncSnap = <<>>
    /\ flight = NoFlight
    /\ syncFails = 0
    /\ call \in {[fn |-> "parseNonNegInt",
                  arg |-> [name |-> a[1], raw |-> raw, fallback |-> a[2]],
                  out |-> Pending] :
                    a \in {<<"skip", Returned(0)>>, <<"limit", Returned(DefaultTaskLimit)>>,
                           <<"limit", ReturnedNull>>},
                    raw \in RawStrings \cup {NoRaw}}
    /\ qry = NoQuery
    /\ procs = <<>>

CallParseNonNegInt ==
    /\ call.fn = "parseNonNegInt"
    /\ call.out = Pending
    /\ call' = [call EXCEPT !.out = parseNonNegInt(call.arg.name, call.arg.raw,
                                                  call.arg.fallback)]
    /\ UNCHANGED <<users, tasks, nextUser, nextTask, resp, logged, syncArgs, syncFails, qry,
                   syncRuns, syncSnap, flight, procs>>

SpecPagination == InitPagination /\ [][CallParseNonNegInt]_vars

\* ------------------------------------------------------ the read routes
\* A JSON-valued query parameter: missing, text that JSON.parse rejects, or
\* text that denotes a value.
NoJson == [kind |-> "undefined"]
Malformed == [kind |-> "malformed"]
Json(v) == [kind |-> "json", value |-> v]
EmptyObject == [kind |-> "object", map |-> <<>>]

parseJsonParam(name, raw, fallback) ==
    IF raw.kind = "undefined" THEN fallback
    ELSE IF raw.kind = "malformed" THEN Thrown(400, "Invalid JSON for '" \o name \o "'")
    ELSE raw.value

\* where || {}
buildFindQuery(q) ==
    LET where == parseJsonParam("where", q.where, EmptyObject)
    IN  IF where.kind \in {"null", "undefined"} THEN EmptyObject ELSE where

buildSort(q) == parseJsonParam("sort", q.sort, NoProjection)

\* The tasks route falls back on `filter`, which is decoded whether or not
\* `select` is there; the users route reads `select` only.
buildSelect(q, withFilter) ==
    LET filter == IF withFilter THEN parseJsonParam("filter", q.filter, NoProjection)
                  ELSE NoProjection
        sel == parseJsonParam("select", q.select, filter)
    IN  IF filter.kind = "throw" THEN filter
        ELSE IF sel.kind = "throw" THEN sel
        ELSE sanitizeSelect(sel)

\* return { skip, limit }, unless one of the two decoders threw
SkipLimit(skip, limit) ==
    IF skip.kind = "throw" THEN skip
    ELSE IF limit.kind = "throw" THEN limit
    ELSE [kind |-> "page", skip |-> skip.value, limit |-> limit]

parsePagination(q, defaultLimit) ==
    SkipLimit(parseNonNegInt("skip", q.skip, Returned(0)),
              parseNonNegInt("limit", q.limit, defaultLimit))

toLowerCase(s) ==
    LET upper == <<"A", "B", "C", "D", "E", "F", "G", "H", "I", "J", "K", "L", "M",
                   "N", "O", "P", "Q", "R", "S", "T", "U", "V", "W", "X", "Y", "Z">>
        lower == <<"a", "b", "c", "d", "e", "f", "g", "h", "i", "j", "k", "l", "m",
                   "n", "o", "p", "q", "r", "s", "t", "u", "v", "w", "x", "y", "z">>
    IN  [i \in 1..Len(s) |->
            IF \E k \in 1..26 : upper[k] = s[i]
            THEN lower[CHOOSE k \in 1..26 : upper[k] = s[i]]
            ELSE s[i]]

\* String(req.query.count).toLowerCase() === "true"
countOnly(q) == toLowerCase(q.count) = <<"t", "r", "u", "e">>

\* The store's part: which documents a predicate matches, in which order a
\* find returns them, and what skip and limit keep of them.  A document
\* matches when every field of the predicate equals its own; without a sort
\* the documents come in insertion order; limit(0) sets no limit.
Matches(doc, where) ==
    \A f \in DOMAIN where.map :
        f \in DOMAIN doc /\ doc[f] = (where.map[f] = "true")

Find(docs, where) ==
    SelectSeq([i \in 1..Len(docs) |-> i], LAMBDA i : Matches(docs[i], where))

\* if (sort) q.sort(sort): the one sort sent is {_id: -1}
Sorted(ids, sort) ==
    IF sort.kind = "object" THEN [i \in 1..Len(ids) |-> ids[Len(ids) + 1 - i]] ELSE ids

Min(a, b) == IF a < b THEN a ELSE b

\* Faulty variant: the limit is applied before the skip.
PageLimitFirst(ids, skip, limit) ==
    LET cut == IF limit.kind = "null" \/ limit.value = 0 THEN ids
               ELSE SubSeq(ids, 1, Min(limit.value, Len(ids)))
    IN  SubSeq(cut, skip + 1, Len(cut))

\* q.skip(skip); if (limit != null) q.limit(limit)
Page(ids, skip, limit) ==
    LET rest == SubSeq(ids, skip + 1, Len(ids))
    IN  IF limit.kind = "null" \/ limit.value = 0 THEN rest
        ELSE SubSeq(rest, 1, Min(limit.value, Len(rest)))

\* The answers of a read route: the status, the count (count mode), the
\* documents returned, named by their ids, and the number of store calls
\* the handler issued.
BadRequest(err) ==
    [status |-> 400, message |-> err.message, mode |-> "error", count |-> 0,
     data |-> <<>>, storeCalls |-> 0]
NotFound(calls) ==
    [status |-> 404, message |-> "not found", mode |-> "error", count |-> 0,
     data |-> <<>>, storeCalls |-> calls]
Ok(mode, count, data) ==
    [status |-> 200, message |-> "OK", mode |-> mode, count |-> count,
     data |-> data, storeCalls |-> 1]

\* Faulty variant: the count is taken of the page.
RunQueryCountsPage(docs, where, sort, isCount, page) ==
    IF isCount
    THEN Ok("count", Len(Page(Sorted(Find(docs, where), sort), page.skip, page.limit)), <<>>)
    ELSE Ok("list", 0, Page(Sorted(Find(docs, where), sort), page.skip, page.limit))

\* countDocuments(where), or find(where) with sort, skip and limit
RunQuery(docs, where, sort, isCount, page) ==
    IF isCount
    THEN Ok("count", Len(Find(docs, where)), <<>>)
    ELSE Ok("list", 0, Page(Sorted(Find(docs, where), sort), page.skip, page.limit))

\* Faulty variant: the query is sent before skip and limit are decoded.
ListAnswerQueryFirst(docs, where, sort, select, isCount, page) ==
    IF where.kind = "throw" THEN BadRequest(where)
    ELSE IF sort.kind = "throw" THEN BadRequest(sort)
    ELSE IF select.kind = "throw" THEN BadRequest(select)
    ELSE IF page.kind = "throw" THEN [BadRequest(page) EXCEPT !.storeCalls = 1]
    ELSE RunQuery(docs, where, sort, isCount, page)

\* The body of router.get("/") on its decoded parameters: the first decoder
\* that threw answers through next(e), otherwise the query is run.
ListAnswer(docs, where, sort, select, isCount, page) ==
    IF where.kind = "throw" THEN BadRequest(where)
    ELSE IF sort.kind = "throw" THEN BadRequest(sort)
    ELSE IF select.kind = "throw" THEN BadRequest(select)
    ELSE IF page.kind = "throw" THEN BadRequest(page)
    ELSE RunQuery(docs, where, sort, isCount, page)

\* router.get("/")
ListDocs(docs, q, defaultLimit, withFilter) ==
    ListAnswer(docs, buildFindQuery(q), buildSort(q), buildSelect(q, withFilter),
               countOnly(q), parsePagination(q, defaultLimit))

\* router.get("/:id") of /api/tasks
GetTaskDoc(id, q) ==
    LET select == buildSelect(q, TRUE)
    IN  IF id = BadId THEN NotFound(0)
        ELSE IF select.kind = "throw" THEN BadRequest(select)
        ELSE IF id \notin DOMAIN tasks THEN NotFound(1)
        ELSE Ok("one", 0, <<id>>)

\* router.get("/:id") of /api/users: an id that is no ObjectId text fails in
\* the cast of findById.
GetUserDoc(id, q) ==
    LET select == buildSelect(q, FALSE)
    IN  IF select.kind = "throw" THEN BadRequest(select)
        ELSE IF id = BadId THEN NotFound(0)
        ELSE IF id \notin DOMAIN users THEN NotFound(1)
        ELSE Ok("one", 0, <<id>>)

\* ---- the requests sent to the read routes
MixedProjection == [kind |-> "object", map |-> [f \in {"a", "b"} |-> IF f = "a" THEN "1" ELSE "0"]]
DescendingId == [kind |-> "object", map |-> [f \in {"_id"} |-> "-1"]]
CompletedOnly == [kind |-> "object", map |-> [f \in {"completed"} |-> "true"]]

WhereInputs(onTasks) ==
    {NoJson, Malformed} \cup (IF onTasks THEN {Json(CompletedOnly)} ELSE {Json(EmptyObject)})
SortInputs == {NoJson, Malformed, Json(DescendingId)}
SelectInputs == {NoJson, Malformed, Json(MixedProjection)}
FilterInputs(onTasks) == IF onTasks THEN {NoJson, Malformed} ELSE {NoJson}
CountInputs == {NoRaw, <<"T", "r", "u", "e">>}
SkipInputs == {NoRaw, <<"1">>, <<"x">>}
LimitInputs == {NoRaw, <<"0">>, <<"2">>, <<"x">>}

Query(where, sort, select, filter, count, skip, limit) ==
    [where |-> where, sort |-> sort, select |-> select, filter |-> filter,
     count |-> count, skip |-> skip, limit |-> limit]

ListQueries(onTasks) ==
    {Query(w, so, se, f, c, sk, l) :
        w \in WhereInputs(onTasks), so \in SortInputs, se \in SelectInputs,
        f \in FilterInputs(onTasks), c \in CountInputs, sk \in SkipInputs, l \in LimitInputs}

\* /:id reads select (and filter) only; the other parameters may still be
\* in the query string.
GetQueries(onTasks) ==
    {Query(w, NoJson, se, f, NoRaw, sk, NoRaw) :
        w \in {NoJson, Malformed}, se \in SelectInputs, f \in FilterInputs(onTasks),
        sk \in {NoRaw, <<"x">>}}

Answered(op, id, q, res) == [op |-> op, id |-> id, q |-> q, res |-> res]

\* The collections the read routes are tried on: none, a few, or one more
\* than the default limit of documents, every second task completed.
ListSizes == {0, 3, DefaultTaskLimit + 1}

InitQuery ==
    /\ \E n \in ListSizes :
          /\ tasks = [t \in 1..n |->
                        [completed |-> t % 2 = 0, assignedUser |-> NoUser,
                         assignedUserName |-> Unassigned]]
          /\ users = [u \in 1..n |->
                        [name |-> "n1",
                         email |-> <<11 + (u % 10), 11 + ((u \div 10) % 10), 11 + (u \div 100)>>,
                         pendingTasks |-> <<>>]]
          /\ nextUser = n + 1
          /\ nextTask = n + 1
    /\ resp = IdleResp
    /\ logged = {}
    /\ syncArgs = [before |-> NullTask, after |-> NullTask]
    /\ syncRuns = 0
    /\ syncSnap = <<>>
    /\ flight = NoFlight
    /\ syncFails = 0
    /\ call = NoCall
    /\ qry = NoQuery
    /\ procs = <<>>

ListTasks(q) ==
    /\ qry' = Answered("listTasks", 0, q, ListDocs(tasks, q, Returned(DefaultTaskLimit), TRUE))
    /\ UNCHANGED <<users, tasks, nextUser, nextTask, resp, logged, syncArgs, syncFails, call,
                   syncRuns, syncSnap, flight, procs>>

ListUsers(q) ==
    /\ qry' = Answered("listUsers", 0, q, ListDocs(users, q, ReturnedNull, FALSE))
    /\ UNCHANGED <<users, tasks, nextUser, nextTask, resp, logged, syncArgs, syncFails, call,
                   syncRuns, syncSnap, flight, procs>>

GetTask(id, q) ==
    /\ qry' = Answered("getTask", id, q, GetTaskDoc(id, q))
    /\ UNCHANGED <<users, tasks, nextUser, nextTask, resp, logged, syncArgs, syncFails, call,
                   syncRuns, syncSnap, flight, procs>>

GetUser(id, q) ==
    /\ qry' = Answered("getUser", id, q, GetUserDoc(id, q))
    /\ UNCHANGED <<users, tasks, nextUser, nextTask, resp, logged, syncArgs, syncFails, call,
                   syncRuns, syncSnap, flight, procs>>

\* One read request is answered and looked at.
NextQuery ==
    \/ \E q \in ListQueries(TRUE) : qry.op = "none" /\ ListTasks(q)
    \/ \E q \in ListQueries(FALSE) : qry.op = "none" /\ ListUsers(q)
    \/ \E id \in {BadId, 1, nextTask} : \E q \in GetQueries(TRUE) :
          qry.op = "none" /\ GetTask(id, q)
    \/ \E id \in {BadId, 1, nextUser} : \E q \in GetQueries(FALSE) :
          qry.op = "none" /\ GetUser(id, q)

SpecQuery == InitQuery /\ [][NextQuery]_vars

\* ---- toIdStrArray applied on its own, then on its own result
MaxArrayLen == 3
IdEntries ==
    {TaskIdStr(1), TaskIdStr(2), PaddedIdStr(1), <<1, SpaceCh>>, <<SpaceCh>>, <<>>, NullVal}
IdArrays == UNION {[1..n -> IdEntries] : n \in 0..MaxArrayLen}
IdArrayInputs ==
    {NoPending, [kind |-> "nonarray", arr |-> <<>>]}
        \cup {[kind |-> "array", arr |-> a] : a \in IdArrays}

InitIdArray ==
    /\ users = <<>>
    /\ tasks = <<>>
    /\ nextUser = 1
    /\ nextTask = 1
    /\ resp = IdleResp
    /\ logged = {}
    /\ syncArgs = [before |-> NullTask, after |-> NullTask]
    /\ syncRuns = 0
    /\ syncSnap = <<>>
    /\ flight = NoFlight
    /\ syncFails = 0
    /\ call \in {[fn |-> "toIdStrArray", arg |-> v, out |-> Pending, again |-> Pending] :
                    v \in IdArrayInputs}
    /\ qry = NoQuery
    /\ procs = <<>>

CallToIdStrArray ==
    /\ call.fn = "toIdStrArray"
    /\ call.out = Pending
    /\ call' = [call EXCEPT !.out = Returned(toIdStrArray(call.arg))]
    /\ UNCHANGED <<users, tasks, nextUser, nextTask, resp, logged, syncArgs, syncFails, qry,
                   syncRuns, syncSnap, flight, procs>>

\* toIdStrArray(toIdStrArray(v))
CallToIdStrArrayAgain ==
    /\ call.fn = "toIdStrArray"
    /\ call.out # Pending
    /\ call.again = Pending
    /\ call' = [call EXCEPT
                    !.again = Returned(toIdStrArray([kind |-> "array", arr |-> call.out.value]))]
    /\ UNCHANGED <<users, tasks, nextUser, nextTask, resp, logged, syncArgs, syncFails, qry,
                   syncRuns, syncSnap, flight, procs>>

NextIdArray == CallToIdStrArray \/ CallToIdStrArrayAgain

SpecIdArray == InitIdArray /\ [][NextIdArray]_vars

\* ---- the requests that address one record by its id
\* GET, PUT and DELETE on /:id of both routes, the responses of PUT and
\* DELETE logged, on empty collections or on two users and two tasks: task 1
\* pending with user 1, task 2 completed and assigned to nobody.
InitById ==
    /\ \/ users = <<>> /\ tasks = <<>> /\ nextUser = 1 /\ nextTask = 1
       \/ /\ users = <<[name |-> "n1", email |-> <<11>>, pendingTasks |-> <<TaskIdStr(1)>>],
                       [name |-> "n2", email |-> <<12>>, pendingTasks |-> <<>>]>>
          /\ tasks = <<[completed |-> FALSE, assignedUser |-> 1, assignedUserName |-> "n1"],
                       [completed |-> TRUE, assignedUser |-> NoUser,
                        assignedUserName |-> Unassigned]>>
          /\ nextUser = 3
          /\ nextTask = 3
    /\ resp = IdleResp
    /\ logged = {"putTask", "deleteTask", "putUser", "deleteUser"}
    /\ syncArgs = [before |-> NullTask, after |-> NullTask]
    /\ syncRuns = 0
    /\ syncSnap = <<>>
    /\ flight = NoFlight
    /\ syncFails = 0
    /\ call = NoCall
    /\ qry = NoQuery
    /\ procs = <<>>

NextById ==
    \/ \E id \in TaskIds \cup {BadId} :
          \E b \in TaskBodiesFor(id \in DOMAIN tasks) :
              Observing /\ qry.op = "none" /\ PutTask(id, b)
    \/ \E id \in TaskIds \cup {BadId} : Observing /\ qry.op = "none" /\ DeleteTask(id)
    \/ \E id \in UserIds \cup {BadId} :
          \E b \in UserBodiesFor(id \in DOMAIN users) :
              Observing /\ qry.op = "none" /\ PutUser(id, b)
    \/ \E id \in UserIds \cup {BadId} : Observing /\ qry.op = "none" /\ DeleteUser(id)
    \/ \E id \in {BadId, 1, nextTask} : \E q \in GetQueries(TRUE) :
          Observing /\ qry.op = "none" /\ GetTask(id, q)
    \/ \E id \in {BadId, 1, nextUser} : \E q \in GetQueries(FALSE) :
          Observing /\ qry.op = "none" /\ GetUser(id, q)

SpecById == InitById /\ [][NextById]_vars

\* ---- concurrent requests, one store operation per step
\* Two requests are in progress at once.  Each step of a request is one
\* awaited store operation of its handler (a findById, a find, a save, a
\* create, a delete or one corrective update); between two steps of one
\* request the other request may take any number of its own.  A save sends
\* only the paths whose value differs from the loaded document.  The first
\* request is on /api/tasks, the second on either route, so that no two
\* requests save the same user document.
Procs == {1, 2}

NoUserDoc == [name |-> Absent, email |-> NoEmail, pendingTasks |-> <<>>]

\* A request taken up: its handler, its position, the addressed id, its body,
\* and what it has read and computed so far.
Proc(op, pc, id, body, ubody) ==
    [op |-> op, pc |-> pc, id |-> id, body |-> body, ubody |-> ubody,
     before |-> NullTask,
     after |-> [_id |-> id, completed |-> body.completed,
                assignedUser |-> body.assignedUser, assignedUserName |-> Unassigned],
     loaded |-> NoUserDoc, k |-> 1, writes |-> <<>>, status |-> 0]

\* The response is sent.
Done(pr, status) == [pr EXCEPT !.pc = "done", !.status = status, !.writes = <<>>]

\* The corrective writes ws are still to be awaited, one by one.
Awaiting(pr, ws) ==
    IF ws = <<>> THEN Done(pr, IF pr.op = "postTask" THEN 201 ELSE 200)
    ELSE [pr EXCEPT !.pc = "write", !.writes = ws]

\* What one step leaves behind: the request and the store.
Out(pr, U, T, nt) == [pr |-> pr, U |-> U, T |-> T, nt |-> nt]

\* await of the next corrective update
WriteStep(pr, U, T, nt) ==
    Out(Awaiting(pr, Tail(pr.writes)),
        ApplyWrite(U, T, Head(pr.writes)).U, ApplyWrite(U, T, Head(pr.writes)).T, nt)

\* const u = await User.findById(assignedUser).lean(), and the two checks on u
FindAssignee(pr, U, next) ==
    IF pr.body.assignedUser \notin DOMAIN U THEN Done(pr, 400)
    ELSE IF pr.body.assignedUserName \notin {Absent, U[pr.body.assignedUser].name}
    THEN Done(pr, 400)
    ELSE [pr EXCEPT !.pc = next, !.after.assignedUserName = U[pr.body.assignedUser].name]

\* task.save(): $set of the modified paths, on the document as it is stored
SaveTask(T, before, after) ==
    [T EXCEPT ![after._id] =
        [completed |-> IF after.completed # before.completed THEN after.completed
                       ELSE @.completed,
         assignedUser |-> IF after.assignedUser # before.assignedUser
                          THEN after.assignedUser ELSE @.assignedUser,
         assignedUserName |-> IF after.assignedUserName # before.assignedUserName
                              THEN after.assignedUserName ELSE @.assignedUserName]]

\* router.post("/") of /api/tasks
PostTaskStep(pr, U, T, nt) ==
    CASE pr.pc = "findAssignee" -> Out(FindAssignee(pr, U, "create"), U, T, nt)
      [] pr.pc = "create" ->
            Out(Awaiting([pr EXCEPT !.id = nt, !.after._id = nt],
                         SyncUserPendingWrites(NullTask, [pr.after EXCEPT !._id = nt])),
                U,
                [x \in DOMAIN T \cup {nt} |-> IF x = nt THEN TaskRec(pr.after) ELSE T[x]],
                nt + 1)
      [] pr.pc = "write" -> WriteStep(pr, U, T, nt)

\* router.put("/:id") of /api/tasks
PutTaskStep(pr, U, T, nt) ==
    CASE pr.pc = "findTask" ->
            Out(IF pr.id \notin DOMAIN T THEN Done(pr, 404)
                ELSE [pr EXCEPT !.before = TaskDoc(T, pr.id),
                                !.pc = IF pr.body.assignedUser = NoUser THEN "save"
                                       ELSE "findAssignee"],
                U, T, nt)
      [] pr.pc = "findAssignee" -> Out(FindAssignee(pr, U, "save"), U, T, nt)
      [] pr.pc = "save" ->
            Out(Awaiting(pr, SyncUserPendingWrites(pr.before, pr.after)),
                U, SaveTask(T, pr.before, pr.after), nt)
      [] pr.pc = "write" -> WriteStep(pr, U, T, nt)

\* user.save(): $set of the modified paths
SaveUser(U, id, loaded, ub) ==
    [U EXCEPT ![id] =
        [name |-> IF ub.name # loaded.name THEN ub.name ELSE @.name,
         email |-> IF NormEmail(ub.email) # loaded.email THEN NormEmail(ub.email)
                   ELSE @.email,
         pendingTasks |->
            IF ub.pendingTasks.kind # "undefined"
               /\ toIdStrArray(ub.pendingTasks) # loaded.pendingTasks
            THEN toIdStrArray(ub.pendingTasks) ELSE @.pendingTasks]]

\* What PUT /api/users/:id awaits after user.save(): the writes of
\* syncTasksOnUserPendingChange as its Task.find on T decides them, then the
\* rename of the user's tasks.
AfterSaveUser(T, id, loaded, ub, withSync) ==
    (IF withSync
     THEN SyncTasksWrites(T, id, ub.name,
              SelectSeq(toIdStrArray(ub.pendingTasks),
                        LAMBDA x : ~SeqHas(loaded.pendingTasks, x)),
              SelectSeq(Dedupe(loaded.pendingTasks, <<>>),
                        LAMBDA x : ~SeqHas(toIdStrArray(ub.pendingTasks), x)))
     ELSE <<>>)
    \o
    (IF loaded.name # ub.name THEN <<[op |-> "rename", uid |-> id, name |-> ub.name]>>
     ELSE <<>>)

\* router.put("/:id") of /api/users
PutUserStep(pr, U, T, nt) ==
    CASE pr.pc = "findUser" ->
            Out(IF pr.id \notin DOMAIN U THEN Done(pr, 404)
                ELSE [pr EXCEPT !.loaded = U[pr.id],
                                !.pc = IF toIdStrArray(pr.ubody.pendingTasks) # <<>>
                                       THEN "checkTask" ELSE "saveUser"],
                U, T, nt)
      [] pr.pc = "checkTask" ->
            Out(IF TaskOfStr(toIdStrArray(pr.ubody.pendingTasks)[pr.k]) \notin DOMAIN T
                THEN Done(pr, 400)
                ELSE IF pr.k < Len(toIdStrArray(pr.ubody.pendingTasks))
                THEN [pr EXCEPT !.k = pr.k + 1]
                ELSE [pr EXCEPT !.pc = "checkDone"],
                U, T, nt)
      [] pr.pc = "checkDone" ->
            Out(IF \E t \in DOMAIN T :
                      SeqHas(toIdStrArray(pr.ubody.pendingTasks), TaskIdStr(t))
                          /\ T[t].completed
                THEN Done(pr, 400)
                ELSE [pr EXCEPT !.pc = "saveUser"],
                U, T, nt)
      [] pr.pc = "saveUser" ->
            Out(IF pr.ubody.pendingTasks.kind # "undefined"
                THEN [pr EXCEPT !.pc = "syncFind"]
                ELSE Awaiting(pr, AfterSaveUser(T, pr.id, pr.loaded, pr.ubody, FALSE)),
                SaveUser(U, pr.id, pr.loaded, pr.ubody), T, nt)
      [] pr.pc = "syncFind" ->
            Out(Awaiting(pr, AfterSaveUser(T, pr.id, pr.loaded, pr.ubody, TRUE)), U, T, nt)
      [] pr.pc = "write" -> WriteStep(pr, U, T, nt)

\* router.delete("/:id") of /api/users
DeleteUserStep(pr, U, T, nt) ==
    CASE pr.pc = "findUser" ->
            Out(IF pr.id \notin DOMAIN U THEN Done(pr, 404)
                ELSE [pr EXCEPT !.pc = "deleteOne"],
                U, T, nt)
      [] pr.pc = "deleteOne" ->
            Out(Awaiting(pr, <<[op |-> "unassignAll", uid |-> pr.id]>>),
                [x \in DOMAIN U \ {pr.id} |-> U[x]], T, nt)
      [] pr.pc = "write" -> WriteStep(pr, U, T, nt)

\* ---- the requests and the store they meet
ConcTaskBodies ==
    {TaskBody("valid", c, au, Absent) : c \in BOOLEAN, au \in {NoUser} \cup UserIds}

TaskRequests ==
    {Proc("putTask", "findTask", 1, b, NoUserBody) : b \in ConcTaskBodies}
        \cup {Proc("postTask", IF b.assignedUser = NoUser THEN "create" ELSE "findAssignee",
                   0, b, NoUserBody) : b \in ConcTaskBodies}

UserRequests ==
    {Proc("putUser", "findUser", u, NoTaskBody, UserBody(n, <<10 + u>>, pt)) :
        u \in UserIds, n \in Names,
        pt \in {NoPending, [kind |-> "array", arr |-> <<>>],
                [kind |-> "array", arr |-> <<TaskIdStr(1)>>]}}
        \cup {Proc("deleteUser", "findUser", u, NoTaskBody, NoUserBody) : u \in UserIds}

\* Two users and one incomplete task, assigned to nobody or to user 1 and
\* then pending with user 1.
InitConcurrent ==
    /\ \E owner \in {NoUser, 1} :
          /\ users = <<[name |-> "n1", email |-> <<11>>,
                        pendingTasks |-> IF owner = 1 THEN <<TaskIdStr(1)>> ELSE <<>>],
                       [name |-> "n2", email |-> <<12>>, pendingTasks |-> <<>>]>>
          /\ tasks = <<[completed |-> FALSE, assignedUser |-> owner,
                        assignedUserName |-> IF owner = 1 THEN "n1" ELSE Unassigned]>>
    /\ nextUser = 3
    /\ nextTask = 2
    /\ resp = IdleResp
    /\ logged = {}
    /\ syncArgs = [before |-> NullTask, after |-> NullTask]
    /\ syncRuns = 0
    /\ syncSnap = <<>>
    /\ flight = NoFlight
    /\ syncFails = 0
    /\ call = NoCall
    /\ qry = NoQuery
    /\ \E r1 \in TaskRequests : \E r2 \in TaskRequests \cup UserRequests :
          procs = <<r1, r2>>

\* The step of request p is committed to the store.
Commit(p, out) ==
    /\ users' = out.U
    /\ tasks' = out.T
    /\ nextTask' = out.nt
    /\ procs' = [procs EXCEPT ![p] = out.pr]
    /\ UNCHANGED <<nextUser, resp, logged, syncArgs, syncFails, call, qry, syncRuns,
                   syncSnap, flight>>

Running(p, op) == procs[p].op = op /\ procs[p].pc # "done"

StepPostTask(p) ==
    Running(p, "postTask") /\ Commit(p, PostTaskStep(procs[p], users, tasks, nextTask))

StepPutTask(p) ==
    Running(p, "putTask") /\ Commit(p, PutTaskStep(procs[p], users, tasks, nextTask))

StepPutUser(p) ==
    Running(p, "putUser") /\ Commit(p, PutUserStep(procs[p], users, tasks, nextTask))

StepDeleteUser(p) ==
    Running(p, "deleteUser") /\ Commit(p, DeleteUserStep(procs[p], users, tasks, nextTask))

NextConcurrent ==
    \E p \in Procs :
        \/ StepPostTask(p)
        \/ StepPutTask(p)
        \/ StepPutUser(p)
        \/ StepDeleteUser(p)

SpecConcurrent == InitConcurrent /\ [][NextConcurrent]_vars

\* ---- the two synchronizers side by side
\* User.updateMany({pendingTasks: tid}, {$pull: {pendingTasks: tid}})
PullFromAll(U, s) ==
    [u \in DOMAIN U |-> [U[u] EXCEPT !.pendingTasks = Pull(@, s)]]

\* syncUserPendingStrict of the sibling tasks route: a completed task is
\* pulled from every user and nothing else is done; otherwise the prior
\* assignee is pulled, the new one added, and a task without assignee is
\* pulled from every user.
syncUserPendingBroadcast(U, before, after) ==
    LET tid == TaskIdStr(after._id)
        oldUid == before.assignedUser
        newUid == after.assignedUser
        pulled == IF oldUid # NoUser /\ oldUid # newUid
                  THEN ApplyUserWrite(U, [op |-> "pull", uid |-> oldUid, s |-> tid])
                  ELSE U
    IN  IF after.completed THEN PullFromAll(U, tid)
        ELSE IF newUid # NoUser
        THEN ApplyUserWrite(pulled, [op |-> "addToSet", uid |-> newUid, s |-> tid])
        ELSE PullFromAll(pulled, tid)

\* The users that hold the task's id while invariants 2 and 3 hold of its
\* stored pre-image: its assignee if it is incomplete and assigned, nobody
\* if it is completed, unassigned or not created yet.
HoldersOfPreImage(before) ==
    IF before.assignedUser # NoUser /\ ~before.completed THEN {before.assignedUser} ELSE {}

\* Any User collection and any (before, after) in which the task is held as
\* invariants 2 and 3 prescribe for the pre-image.
InitSyncBoth ==
    /\ users \in {[u \in UserIds |->
                      [name |-> "n1", email |-> <<10 + u>>, pendingTasks |-> q[u]]] :
                    q \in [UserIds -> SyncPendings]}
    /\ syncArgs \in {[before |-> bf, after |-> af] :
                       bf \in {NullTask} \cup SyncAfters, af \in SyncAfters}
    /\ syncArgs.before._id \in {0, syncArgs.after._id}
    /\ Holders(users, TaskIdStr(syncArgs.after._id)) = HoldersOfPreImage(syncArgs.before)
    /\ tasks = [t \in {syncArgs.after._id} |-> TaskRec(syncArgs.after)]
    /\ nextUser = MaxUsers + 1
    /\ nextTask = MaxTasks + 1
    /\ resp = IdleResp
    /\ logged = {}
    /\ syncRuns = 0
    /\ syncSnap = <<>>
    /\ flight = NoFlight
    /\ syncFails = 0
    /\ call = NoCall
    /\ qry = NoQuery
    /\ procs = <<>>

\* Both synchronizers are run on the same collection: users takes the result
\* of the pointwise one, syncSnap the collection as it was and the result of
\* the broadcast one.
SyncBoth ==
    /\ syncRuns = 0
    /\ users' = syncUserPendingStrict(users, syncArgs.before, syncArgs.after)
    /\ syncSnap' = [pre |-> users,
                    broadcast |-> syncUserPendingBroadcast(users, syncArgs.before,
                                                           syncArgs.after)]
    /\ syncRuns' = 1
    /\ UNCHANGED <<tasks, nextUser, nextTask, resp, logged, syncArgs, syncFails, call, qry,
                   flight, procs>>

SpecSyncBoth == InitSyncBoth /\ [][SyncBoth]_vars

\* ---- task writes with every body
\* Two users of different names and one task; POST /api/tasks and
\* PUT /api/tasks/:id are logged and carry every body, also to an id that
\* addresses no task, while users are renamed and replaced in between.
InitAssign ==
    /\ users = [u \in {1, 2} |->
                  [name |-> IF u = 1 THEN "n1" ELSE "n2", email |-> <<10 + u>>,
                   pendingTasks |-> IF u = 1 THEN <<TaskIdStr(1)>> ELSE <<>>]]
    /\ tasks = [t \in {1} |->
                  [completed |-> FALSE, assignedUser |-> 1, assignedUserName |-> "n1"]]
    /\ nextUser = 3
    /\ nextTask = 2
    /\ resp = IdleResp
    /\ logged = {"postTask", "putTask"}
    /\ syncArgs = [before |-> NullTask, after |-> NullTask]
    /\ syncRuns = 0
    /\ syncSnap = <<>>
    /\ flight = NoFlight
    /\ syncFails = 0
    /\ call = NoCall
    /\ qry = NoQuery
    /\ procs = <<>>

NextAssign ==
    \/ \E b \in TaskBodies : Observing /\ PostTask(b)
    \/ \E id \in TaskIds \cup {BadId} : \E b \in TaskBodies : Observing /\ PutTask(id, b)
    \/ \E id \in UserIds : \E b \in UserBodiesFor(id \in DOMAIN users) :
          Observing /\ PutUser(id, b)
    \/ \E id \in UserIds : Observing /\ DeleteUser(id)

SpecAssign == InitAssign /\ [][NextAssign]_vars

\* ================================================================ claims
PendingHas(u, t) == SeqHas(users[u].pendingTasks, TaskIdStr(t))

\* C1: after every request, an incomplete task assigned to u is in
\* u.pendingTasks and in no other user's pendingTasks.
C1_AssignedIncompleteIsPending ==
    \A t \in DOMAIN tasks :
        (~tasks[t].completed /\ tasks[t].assignedUser # NoUser)
            => /\ tasks[t].assignedUser \in DOMAIN users
               /\ Holders(users, TaskIdStr(t)) = {tasks[t].assignedUser}

\* C2: after every request, a task that is completed or unassigned is in no
\* user's pendingTasks.
C2_CompletedOrUnassignedNotPending ==
    \A t \in DOMAIN tasks :
        (tasks[t].completed \/ tasks[t].assignedUser = NoUser)
            => Holders(users, TaskIdStr(t)) = {}

\* A completed task that is still assigned, beside an unassigned task, while
\* some user holds a pending task.
C2_Witness ==
    /\ \E t \in DOMAIN tasks :
          tasks[t].completed /\ tasks[t].assignedUser \in DOMAIN users
    /\ \E t \in DOMAIN tasks : tasks[t].assignedUser = NoUser
    /\ \E u \in DOMAIN users : users[u].pendingTasks # <<>>

\* C3: after every request, an unassigned task is named "unassigned" and an
\* assigned one names an existing user and carries that user's current name.
C3_AssignedNameIsCurrent ==
    \A t \in DOMAIN tasks :
        IF tasks[t].assignedUser = NoUser
        THEN tasks[t].assignedUserName = Unassigned
        ELSE /\ tasks[t].assignedUser \in DOMAIN users
             /\ tasks[t].assignedUserName = users[tasks[t].assignedUser].name

\* C4: after every request, every pendingTasks entry is the id of a task
\* that exists.
C4_PendingEntriesExist ==
    \A u \in DOMAIN users :
        \A i \in 1..Len(users[u].pendingTasks) :
            TaskOfStr(users[u].pendingTasks[i]) \in DOMAIN tasks

\* C5: a PUT of a task that is stored completed never succeeds, and a task
\* that is completed stays completed.
C5_CompletedTaskRejectsPut ==
    [][/\ \A t \in DOMAIN tasks :
             (tasks[t].completed /\ t \in DOMAIN tasks') => tasks'[t] = tasks[t]
       /\ (resp'.op = "putTask" /\ resp'.status = 200) => ~resp'.before.completed]_vars

\* C6: running syncUserPendingStrict(before, after) a second time with the
\* same arguments leaves every user's pendingTasks as the first run left it.
C6_SyncIdempotent ==
    syncRuns >= 2 => users = syncSnap

\* The synchronizer has run twice and its first run changed some pendingTasks
\* by an $addToSet.
C6_Witness ==
    /\ syncRuns = 2
    /\ ~syncArgs.after.completed
    /\ syncArgs.after.assignedUser # NoUser
    /\ PendingHas(syncArgs.after.assignedUser, syncArgs.after._id)

\* C7: once the synchronizer has run with after.completed = true, no user's
\* pendingTasks holds after's id.
C7_CompletedHeldByNobody ==
    (syncRuns >= 1 /\ syncArgs.after.completed)
        => Holders(users, TaskIdStr(syncArgs.after._id)) = {}

\* C8: once the synchronizer has run with after incomplete and unassigned,
\* no user's pendingTasks holds after's id.
C8_UnassignedHeldByNobody ==
    (syncRuns >= 1 /\ ~syncArgs.after.completed
        /\ syncArgs.after.assignedUser = NoUser)
        => Holders(users, TaskIdStr(syncArgs.after._id)) = {}

\* The logged PUT completed a task that was incomplete, assigned to A and in
\* A.pendingTasks, keeping it assigned to A.
CompletionCase(A) ==
    /\ resp.op = "putTask"
    /\ resp.status = 200
    /\ ~resp.before.completed
    /\ resp.before.assignedUser = A
    /\ A \in resp.held
    /\ resp.body.completed
    /\ resp.body.assignedUser = A

\* C9: such a PUT leaves the task out of A.pendingTasks, still assigned to A
\* and named after A.
C9_Completion ==
    \A A \in UserIds :
        CompletionCase(A)
            => /\ A \in DOMAIN users
               /\ ~PendingHas(A, resp.id)
               /\ tasks[resp.id].completed
               /\ tasks[resp.id].assignedUser = A
               /\ tasks[resp.id].assignedUserName = users[A].name

C9_Witness == \E A \in UserIds : CompletionCase(A)

\* The logged PUT moved an incomplete task from A to another existing user B
\* and left it incomplete.
ReassignCase(A, B) ==
    /\ resp.op = "putTask"
    /\ resp.status = 200
    /\ ~resp.before.completed
    /\ resp.before.assignedUser = A
    /\ resp.body.assignedUser = B
    /\ A # B
    /\ ~resp.body.completed

\* C10: such a PUT leaves the task out of A.pendingTasks and in
\* B.pendingTasks, named after B.
C10_Reassignment ==
    \A A \in UserIds, B \in UserIds :
        ReassignCase(A, B)
            => /\ A \in DOMAIN users => ~PendingHas(A, resp.id)
               /\ B \in DOMAIN users
               /\ PendingHas(B, resp.id)
               /\ tasks[resp.id].assignedUser = B
               /\ tasks[resp.id].assignedUserName = users[B].name

C10_Witness ==
    \E A \in UserIds, B \in UserIds :
        ReassignCase(A, B) /\ A \in resp.held /\ A \in DOMAIN users

C14_DeleteUserCascade ==
    (resp.op = "deleteUser" /\ resp.status = 200)
        => /\ resp.id \notin DOMAIN users
           /\ DOMAIN tasks = DOMAIN resp.preTasks
           /\ \A t \in DOMAIN tasks :
                 IF resp.preTasks[t].assignedUser = resp.id
                 THEN /\ tasks[t].assignedUser = NoUser
                      /\ tasks[t].assignedUserName = Unassigned
                      /\ tasks[t].completed = resp.preTasks[t].completed
                 ELSE tasks[t] = resp.preTasks[t]

\* A successful DELETE of a user who had a completed task, while another task
\* was assigned to somebody else.
C14_Witness ==
    /\ resp.op = "deleteUser" /\ resp.status = 200
    /\ \E t \in DOMAIN resp.preTasks :
          resp.preTasks[t].assignedUser = resp.id /\ resp.preTasks[t].completed
    /\ \E t \in DOMAIN resp.preTasks :
          resp.preTasks[t].assignedUser \notin {NoUser, resp.id}

\* The logged request is a successful PUT of a user that changed the name.
RenameCase ==
    /\ resp.op = "putUser"
    /\ resp.status = 200
    /\ resp.ubody.name # resp.preUsers[resp.id].name

BadPendingSupplied ==
    LET nowIds == toIdStrArray(resp.ubody.pendingTasks)
    IN  \E i \in 1..Len(nowIds) :
           \/ TaskOfStr(nowIds[i]) \notin DOMAIN resp.preTasks
           \/ resp.preTasks[TaskOfStr(nowIds[i])].completed

\* C16: a POST or PUT of a user whose pendingTasks names a missing or a
\* completed task is answered 4xx and changes neither collection.
C16_BadPendingRejected ==
    (resp.op \in {"postUser", "putUser"} /\ BadPendingSupplied)
        => /\ resp.status \in {400, 404}
           /\ users = resp.preUsers
           /\ tasks = resp.preTasks

\* A user request with usable name and e-mail whose pendingTasks names a
\* completed task.
C16_Witness ==
    /\ resp.op \in {"postUser", "putUser"}
    /\ resp.ubody.name # Absent /\ resp.ubody.email # NoEmail
    /\ LET nowIds == toIdStrArray(resp.ubody.pendingTasks)
       IN  \E i \in 1..Len(nowIds) :
              /\ TaskOfStr(nowIds[i]) \in DOMAIN resp.preTasks
              /\ resp.preTasks[TaskOfStr(nowIds[i])].completed

\* The logged request is a successful POST or PUT of user A whose pendingTasks
\* adds task T, incomplete and assigned to another user B until then.
StealCase(A, T, B) ==
    /\ resp.op \in {"postUser", "putUser"}
    /\ resp.status \in {200, 201}
    /\ resp.id = A
    /\ SeqHas(toIdStrArray(resp.ubody.pendingTasks), TaskIdStr(T))
    /\ T \in DOMAIN resp.preTasks
    /\ ~resp.preTasks[T].completed
    /\ resp.preTasks[T].assignedUser = B
    /\ B # A

\* C17: such a request leaves T assigned to A under A's name, in
\* A.pendingTasks and out of B.pendingTasks.
C17_Stealing ==
    \A A \in UserIds, B \in UserIds, T \in TaskIds :
        StealCase(A, T, B)
            => /\ tasks[T].assignedUser = A
               /\ tasks[T].assignedUserName = users[A].name
               /\ PendingHas(A, T)
               /\ B \in DOMAIN users => ~PendingHas(B, T)

\* C18: when a PUT of user A takes task T out of A.pendingTasks, T becomes
\* unassigned exactly when it was assigned to A; otherwise its assignedUser
\* and assignedUserName stay.
C18_RemovedUnassignedIffOwned ==
    resp.op = "putUser" /\ resp.id \in DOMAIN resp.preUsers
        => \A T \in DOMAIN resp.preTasks :
              (SeqHas(resp.preUsers[resp.id].pendingTasks, TaskIdStr(T))
                  /\ ~PendingHas(resp.id, T))
                  => IF resp.preTasks[T].assignedUser = resp.id
                     THEN /\ tasks[T].assignedUser = NoUser
                          /\ tasks[T].assignedUserName = Unassigned
                     ELSE /\ tasks[T].assignedUser = resp.preTasks[T].assignedUser
                          /\ tasks[T].assignedUserName
                                 = resp.preTasks[T].assignedUserName

\* C19: a request answered 400 or 404 leaves both collections as it found
\* them.
C19_ClientErrorChangesNothing ==
    resp.status \in {400, 404}
        => users = resp.preUsers /\ tasks = resp.preTasks

\* The request in progress is a PUT that moves an incomplete task from user A
\* to another user B and leaves it incomplete.
ReassignInFlight(A, B) ==
    /\ flight.op = "putTask"
    /\ ~flight.preTasks[flight.id].completed
    /\ flight.preTasks[flight.id].assignedUser = A
    /\ flight.body.assignedUser = B
    /\ A # B
    /\ ~flight.body.completed

\* C11: in every committed state of such a PUT, from the save to the last
\* corrective write, at most one user's pendingTasks holds the task's id, and
\* B never holds it while A still does.
C11_RemoveBeforeAdd ==
    \A A \in UserIds, B \in UserIds :
        ReassignInFlight(A, B)
            => /\ Cardinality(Holders(users, TaskIdStr(flight.id))) <= 1
               /\ ~(A \in DOMAIN users /\ B \in DOMAIN users
                       /\ PendingHas(A, flight.id) /\ PendingHas(B, flight.id))

\* Between the two corrective writes: A held the task, the $pull is committed,
\* the $addToSet is not yet.
C11_Witness ==
    \E A \in UserIds, B \in UserIds :
        /\ ReassignInFlight(A, B)
        /\ A \in Holders(flight.preUsers, TaskIdStr(flight.id))
        /\ Len(flight.writes) = 1
        /\ Holders(users, TaskIdStr(flight.id)) = {}

\* The request in progress is a POST or PUT of user A whose pendingTasks names
\* task T, incomplete and assigned to another user B.
StealInFlight(A, T, B) ==
    /\ flight.op \in {"postUser", "putUser"}
    /\ flight.id = A
    /\ SeqHas(toIdStrArray(flight.ubody.pendingTasks), TaskIdStr(T))
    /\ T \in DOMAIN flight.preTasks
    /\ ~flight.preTasks[T].completed
    /\ flight.preTasks[T].assignedUser = B
    /\ B # A

\* C12: in every committed state of such a request at most one user's
\* pendingTasks holds T's id.
C12_StealAtMostOneHolder ==
    \A A \in UserIds, B \in UserIds, T \in TaskIds :
        StealInFlight(A, T, B)
            => Cardinality(Holders(users, TaskIdStr(T))) <= 1

\* The primary write of the request f is in place in the collections U, T.
PrimaryStands(f, U, T) ==
    CASE f.op = "postTask" -> f.id \in DOMAIN T /\ f.id \notin DOMAIN f.preTasks
      [] f.op = "putTask" ->
            /\ f.id \in DOMAIN T
            /\ T[f.id].completed = f.body.completed
            /\ T[f.id].assignedUser = f.body.assignedUser
      [] f.op = "deleteTask" -> f.id \notin DOMAIN T /\ f.id \in DOMAIN f.preTasks
      [] f.op = "postUser" ->
            /\ f.id \in DOMAIN U /\ f.id \notin DOMAIN f.preUsers
            /\ U[f.id].name = f.ubody.name
      [] f.op = "putUser" ->
            /\ f.id \in DOMAIN U
            /\ U[f.id].name = f.ubody.name
            /\ U[f.id].email = NormEmail(f.ubody.email)
      [] f.op = "deleteUser" -> f.id \notin DOMAIN U /\ f.id \in DOMAIN f.preUsers
      [] OTHER -> FALSE

\* C20: when a corrective write fails in the store, the request is answered
\* 500 and both collections stay as the writes committed so far left them,
\* the primary write included.
C20_SyncFailureNotRolledBack ==
    [][(/\ flight.writes # <<>>
        /\ flight'.op = "none"
        /\ ~RaisesCastError(Head(flight.writes)))
          => /\ resp'.op = flight.op
             /\ resp'.status = 500
             /\ users' = users
             /\ tasks' = tasks
             /\ PrimaryStands(flight, users', tasks')]_vars

\* A PUT of a user answered 500 after its save and a first corrective write
\* were committed.
C20_Witness ==
    /\ resp.op = "putUser"
    /\ resp.status = 500
    /\ users # resp.preUsers
    /\ tasks # resp.preTasks


\* C21: when syncUserPendingStrict(before, after) fails after any prefix of
\* its corrective writes and is then re-run to completion with the same
\* arguments, every actor's pendingTasks equals what a single failure-free
\* run makes of the same starting state.
C21_RetryConverges == syncRuns = 1 => users = syncSnap

\* a re-run after a failed reassignment of an incomplete task: the old
\* owner is cleaned and the new one holds the id
C21_Witness ==
    /\ syncRuns = 1
    /\ syncFails >= 1
    /\ syncArgs.after.assignedUser # NoUser
    /\ ~syncArgs.after.completed
    /\ syncArgs.before.assignedUser \notin {NoUser, syncArgs.after.assignedUser}
    /\ PendingHas(syncArgs.after.assignedUser, syncArgs.after._id)
    /\ ~PendingHas(syncArgs.before.assignedUser, syncArgs.after._id)


\* C22: when syncTasksOnUserPendingChange(userId, userName, addedIds,
\* removedIds) fails after any prefix of its corrective writes and is then
\* re-run to completion with the same arguments, both collections (task
\* assignments and every user's pendingTasks, prior owners' included) equal
\* what a single failure-free run makes of the same starting state.
C22_UserRetryConverges ==
    syncRuns = 1 => users = syncSnap.U /\ tasks = syncSnap.T


\* C23: a task create or replace whose assignedUser is non-empty and names
\* no existing user is rejected with a 4xx status before any write: no task
\* is created or changed and no user's pendingTasks changes.
UnknownAssignee ==
    /\ resp.op \in {"postTask", "putTask"}
    /\ resp.body.assignedUser # NoUser
    /\ resp.body.assignedUser \notin DOMAIN resp.preUsers

C23_UnknownAssigneeRejected ==
    UnknownAssignee =>
        /\ resp.status \in {400, 404}
        /\ users = resp.preUsers
        /\ tasks = resp.preTasks

\* an otherwise valid replace of an existing task, naming a well-formed id
\* of no user while other users exist
C23_Witness ==
    /\ UnknownAssignee
    /\ resp.op = "putTask"
    /\ resp.id \in DOMAIN resp.preTasks
    /\ resp.body.fields = "valid"
    /\ resp.body.assignedUser \in UserIds
    /\ DOMAIN resp.preUsers # {}
    /\ resp.status = 400


\* C24: in every mutating request the primary store write (create, save or
\* delete of the addressed record) is committed before the first corrective
\* write to the other collection is issued: the step that accepts a request
\* commits the primary write and touches nothing else, and every later write
\* of the request finds the primary write in place; on delete the record is
\* gone before the deletion hook writes.
OnlyPrimaryWritten ==
    IF flight'.op \in {"postTask", "putTask", "deleteTask"}
    THEN users' = users
    ELSE /\ tasks' = tasks
         /\ \A u \in DOMAIN users \ {flight'.id} :
               u \in DOMAIN users' /\ users'[u] = users[u]

C24_PrimaryWriteFirst ==
    [][/\ (flight.op = "none" /\ flight'.op # "none")
            => PrimaryStands(flight', users', tasks') /\ OnlyPrimaryWritten
       /\ (flight.op # "none" /\ (users' # users \/ tasks' # tasks))
            => PrimaryStands(flight, users, tasks)]_vars

\* a task deletion in progress: the record is removed and its assignee still
\* holds the id, the hook's $pull being the next write
C24_Witness ==
    /\ flight.op = "deleteTask"
    /\ flight.writes # <<>>
    /\ flight.id \notin DOMAIN tasks
    /\ flight.preTasks[flight.id].assignedUser \in DOMAIN users
    /\ PendingHas(flight.preTasks[flight.id].assignedUser, flight.id)


\* C25: in every reachable state no two users have the same email after
\* trimming and lower-casing; a user create or replace that would produce
\* such a duplicate is rejected with a 4xx status and changes nothing.
SameEmail(e, f) == LowerAll(Trim(e)) = LowerAll(Trim(f))

DuplicateEmail ==
    /\ resp.op \in {"postUser", "putUser"}
    /\ resp.ubody.email # NoEmail
    /\ \E v \in DOMAIN resp.preUsers :
          v # resp.id /\ SameEmail(resp.preUsers[v].email, resp.ubody.email)

C25_EmailUnique ==
    /\ \A u, v \in DOMAIN users : u # v => ~SameEmail(users[u].email, users[v].email)
    /\ DuplicateEmail =>
          /\ resp.status \in {400, 404}
          /\ users = resp.preUsers
          /\ tasks = resp.preTasks

\* a create, valid in everything else, whose email differs from a stored one
\* only by a leading blank and the letter's case
C25_Witness ==
    /\ DuplicateEmail
    /\ resp.op = "postUser"
    /\ resp.status = 400
    /\ resp.ubody.name # Absent
    /\ ~PendingRejected(resp.preTasks, toIdStrArray(resp.ubody.pendingTasks))
    /\ \A v \in DOMAIN resp.preUsers : resp.preUsers[v].email # resp.ubody.email


\* C26: sanitizeSelect returns undefined for an absent or empty projection;
\* a non-empty projection fails with a 400 error exactly when some field
\* other than _id carries an exclusion marker (0/false) while some field
\* carries an inclusion marker (1/true); otherwise, and in particular when
\* its only exclusion marker is on _id, it is returned unchanged.
SelectReturned == call.fn = "sanitizeSelect" /\ call.out # Pending

EmptySelect == call.arg.kind # "object" \/ DOMAIN call.arg.map = {}

MixedSelect ==
    /\ \E f \in DOMAIN call.arg.map : f # "_id" /\ call.arg.map[f] \in {"0", "false"}
    /\ \E f \in DOMAIN call.arg.map : call.arg.map[f] \in {"1", "true"}

C26_ProjectionDecoding ==
    SelectReturned =>
        IF EmptySelect THEN call.out = NoProjection
        ELSE /\ (call.out.kind = "throw") = MixedSelect
             /\ call.out.kind = "throw" => call.out.statusCode = 400
             /\ call.out.kind # "throw" => call.out = call.arg

\* {_id: 0, a: 1} is accepted unchanged
C26_Witness ==
    /\ SelectReturned
    /\ call.arg.kind = "object"
    /\ DOMAIN call.arg.map = {"_id", "a"}
    /\ call.arg.map["_id"] = "0"
    /\ call.arg.map["a"] = "1"
    /\ call.out = call.arg


\* C27: for each of skip and limit, a supplied value that is not a base-10
\* non-negative integer string fails with the 400 error "<name> must be a
\* non-negative integer", and a supplied value that is such a string is
\* accepted as that integer.
IsBase10(raw) == raw # <<>> /\ AllDec(raw)

C27_PaginationDecoding ==
    (call.fn = "parseNonNegInt" /\ call.out # Pending /\ call.arg.raw # NoRaw) =>
        IF IsBase10(call.arg.raw)
        THEN call.out = Returned(DigitsValue(call.arg.raw, 10, 0))
        ELSE call.out = Thrown(400, call.arg.name \o " must be a non-negative integer")


\* ---- the read requests, as the claims speak of them
IsList == qry.op \in {"listTasks", "listUsers"}
IsGet == qry.op \in {"getTask", "getUser"}
OnTasks == qry.op \in {"listTasks", "getTask"}
Listed == IF qry.op = "listTasks" THEN tasks ELSE users
CountRequested == toLowerCase(qry.q.count) = <<"t", "r", "u", "e">>
BadNumber(raw) == raw # NoRaw /\ ~IsBase10(raw)
BadSelect ==
    \/ qry.q.select \in {Malformed, Json(MixedProjection)}
    \/ OnTasks /\ qry.q.filter = Malformed
BadWhereOrSort == qry.q.where = Malformed \/ qry.q.sort = Malformed
BadPagination == BadNumber(qry.q.skip) \/ BadNumber(qry.q.limit)
Predicate == IF qry.q.where.kind = "json" THEN qry.q.where.value ELSE EmptyObject
MatchCount == Cardinality({i \in DOMAIN Listed : Matches(Listed[i], Predicate)})
\* the matching records, in the order requested
Matching ==
    Sorted(Find(Listed, Predicate),
           IF qry.q.sort.kind = "json" THEN qry.q.sort.value ELSE NoProjection)

\* C28 as stated: when count is requested (lower-cased value equals "true"),
\* the list endpoint answers with the number of records matching the
\* predicate whatever values of skip and limit accompany the request.
C28_CountIgnoresPagination ==
    (IsList /\ CountRequested /\ ~BadWhereOrSort /\ ~BadSelect) =>
        /\ qry.res.status = 200
        /\ qry.res.mode = "count"
        /\ qry.res.count = MatchCount

\* C28, amended: in count mode the answer is the number of matching records
\* whatever values of skip and limit the pagination decoder accepts; a value
\* it rejects is answered 400 in count mode too, before any store access.
C28_CountIgnoresAcceptedPagination ==
    (IsList /\ CountRequested /\ ~BadWhereOrSort /\ ~BadSelect) =>
        IF BadPagination
        THEN qry.res.status = 400 /\ qry.res.storeCalls = 0
        ELSE /\ qry.res.status = 200
             /\ qry.res.mode = "count"
             /\ qry.res.count = MatchCount

\* the count of all 101 tasks, asked with skip=1 and limit=2
C28_Witness ==
    /\ qry.op = "listTasks"
    /\ CountRequested
    /\ qry.q.skip = <<"1">>
    /\ qry.q.limit = <<"2">>
    /\ qry.res.mode = "count"
    /\ qry.res.count = DefaultTaskLimit + 1

\* ---- C29
ListAnswered == IsList /\ ~CountRequested /\ ~BadWhereOrSort /\ ~BadSelect /\ ~BadPagination
SkipAsked == IF qry.q.skip = NoRaw THEN 0 ELSE DigitsValue(qry.q.skip, 10, 0)
Remaining == IF SkipAsked >= Len(Matching) THEN 0 ELSE Len(Matching) - SkipAsked
DefaultCap == IF qry.op = "listTasks" THEN Min(100, Remaining) ELSE Remaining
Window(n) == SubSeq(Matching, SkipAsked + 1, SkipAsked + n)

\* C29 as stated: with skip absent the list starts at the first matching
\* record; with limit absent the task list returns at most 100 records and
\* the user list every matching record; with both supplied the list returns
\* the matching records after skipping skip of them, at most limit in number.
C29_ListDefaults ==
    ListAnswered =>
        /\ qry.res.status = 200
        /\ qry.res.data =
              Window(IF qry.q.limit = NoRaw THEN DefaultCap
                     ELSE Min(DigitsValue(qry.q.limit, 10, 0), Remaining))

\* C29, amended: as stated, except that a supplied limit of 0 sets no limit:
\* the list then returns every matching record after the skipped ones.
C29_ListDefaultsZeroUnlimited ==
    ListAnswered =>
        /\ qry.res.status = 200
        /\ qry.res.data =
              Window(IF qry.q.limit = NoRaw THEN DefaultCap
                     ELSE IF DigitsValue(qry.q.limit, 10, 0) = 0 THEN Remaining
                     ELSE Min(DigitsValue(qry.q.limit, 10, 0), Remaining))

\* 101 tasks match and neither skip nor limit is given: the first 100 are
\* returned
C29_Witness ==
    /\ qry.op = "listTasks"
    /\ ListAnswered
    /\ qry.q.skip = NoRaw
    /\ qry.q.limit = NoRaw
    /\ Len(Matching) = 101
    /\ Len(qry.res.data) = 100
    /\ qry.res.data[1] = Matching[1]

IdArrayReturned == call.fn = "toIdStrArray" /\ call.out # Pending
IdsOut == call.out.value

\* the trimmed string form of entry i, empty for null
EntryText(i) ==
    IF call.arg.arr[i] = NullVal THEN <<>> ELSE Trim(JsString(call.arg.arr[i]))

\* where a text first occurs among the entries
FirstEntry(s) ==
    CHOOSE i \in DOMAIN call.arg.arr :
        EntryText(i) = s /\ \A j \in 1..(i - 1) : EntryText(j) # s

C31_IdArrayNormalization ==
    IdArrayReturned =>
        /\ call.arg.kind # "array" => IdsOut = <<>>
        /\ call.arg.kind = "array" =>
              /\ {IdsOut[k] : k \in DOMAIN IdsOut}
                    = {EntryText(i) : i \in DOMAIN call.arg.arr} \ {<<>>}
              /\ \A k, l \in DOMAIN IdsOut :
                    k < l => FirstEntry(IdsOut[k]) < FirstEntry(IdsOut[l])
        /\ call.again # Pending => call.again = call.out

\* [" 1", "2", "1 "] gives ["1", "2"], and so does ["1", "2"]
C31_Witness ==
    /\ IdArrayReturned
    /\ call.arg = [kind |-> "array", arr |-> <<PaddedIdStr(1), TaskIdStr(2), <<1, SpaceCh>>>>]
    /\ IdsOut = <<TaskIdStr(1), TaskIdStr(2)>>
    /\ call.again = call.out

\* ---- C32
WriteById == resp.op \in {"putTask", "deleteTask", "putUser", "deleteUser"}

\* the records a logged PUT or DELETE could address when it arrived
Addressable ==
    IF resp.op \in {"putTask", "deleteTask"} THEN DOMAIN resp.preTasks
    ELSE DOMAIN resp.preUsers

\* only a request that addressed an existing record is answered otherwise
\* than 404, and a 404 answer leaves both collections as they were
WriteByIdNotFound ==
    WriteById =>
        /\ resp.status # 404 => resp.id \in Addressable
        /\ resp.status = 404 => users = resp.preUsers /\ tasks = resp.preTasks

NoSuchRecord ==
    qry.id = BadId \/ qry.id \notin (IF qry.op = "getTask" THEN DOMAIN tasks ELSE DOMAIN users)

ReadLeavesStore == [][qry' # qry => users' = users /\ tasks' = tasks]_vars

\* C32 as stated: GET, PUT and DELETE on /api/tasks/:id and /api/users/:id
\* with an id that is malformed or names no existing record answer 404 and
\* leave both collections unchanged.
C32_NoRecordNotFound ==
    /\ [](WriteByIdNotFound /\ ((IsGet /\ NoSuchRecord) => qry.res.status = 404))
    /\ ReadLeavesStore

\* C32, amended: PUT and DELETE answer 404 and change nothing; GET answers
\* 404 unless its projection parameter is malformed, which is answered 400
\* (GET /api/tasks/:id still answers 404 for a malformed id); GET changes
\* nothing either.
C32_NoRecordNotFoundOrBadSelect ==
    /\ [](/\ WriteByIdNotFound
          /\ (IsGet /\ NoSuchRecord) =>
                qry.res.status =
                    IF BadSelect /\ ~(qry.op = "getTask" /\ qry.id = BadId) THEN 400 ELSE 404)
    /\ ReadLeavesStore

\* DELETE /api/tasks/:id on an id that names none of the stored tasks
C32_Witness ==
    /\ resp.op = "deleteTask"
    /\ resp.status = 404
    /\ resp.preTasks # <<>>
    /\ \E u \in DOMAIN users : users[u].pendingTasks # <<>>
    /\ tasks = resp.preTasks

\* ---- C33, C34, C35: concurrent requests
\* every request in progress has sent its response
AllDone == procs # <<>> /\ \A p \in DOMAIN procs : procs[p].pc = "done"

\* C33: under any interleaving of the store reads and writes of concurrent
\* requests, once every request has completed, every incomplete assigned
\* task is in the pendingTasks of exactly the user its assignedUser names.
C33_ConcurrentAssignedIsPending ==
    AllDone =>
        \A t \in DOMAIN tasks :
            (~tasks[t].completed /\ tasks[t].assignedUser # NoUser)
                => Holders(users, TaskIdStr(t)) = {tasks[t].assignedUser}

\* C34: under any interleaving, once every request has completed, no
\* user's pendingTasks contains the id of a completed or unassigned task.
C34_ConcurrentNoStalePending ==
    AllDone =>
        \A u \in DOMAIN users : \A t \in DOMAIN tasks :
            SeqHas(users[u].pendingTasks, TaskIdStr(t))
                => ~tasks[t].completed /\ tasks[t].assignedUser # NoUser

\* C35: under any interleaving, once every request has completed, every
\* task's assignedUser is empty or names an existing user, and its
\* assignedUserName is "unassigned" or that user's current name.
C35_ConcurrentAssigneeExists ==
    AllDone =>
        \A t \in DOMAIN tasks :
            \/ tasks[t].assignedUser = NoUser /\ tasks[t].assignedUserName = Unassigned
            \/ /\ tasks[t].assignedUser \in DOMAIN users
               /\ tasks[t].assignedUserName = users[tasks[t].assignedUser].name

\* ---- C36
\* no entry twice, and every entry the exact id text of a stored task
ExactIds(pend) ==
    /\ \A i, j \in DOMAIN pend : pend[i] = pend[j] => i = j
    /\ \A i \in DOMAIN pend :
          isValidObjectId(pend[i]) /\ TaskOfStr(pend[i]) \in DOMAIN tasks

\* C36: after a successful POST /api/users with a pendingTasks array, the
\* stored pendingTasks is the normalized id sequence that was validated and
\* synchronized; in every reachable state each user's pendingTasks is
\* duplicate-free and each of its entries is the exact id of a task.
C36_CreateStoresNormalizedIds ==
    /\ (resp.op = "postUser" /\ resp.status = 201
            /\ resp.ubody.pendingTasks.kind = "array") =>
          users[resp.id].pendingTasks = toIdStrArray(resp.ubody.pendingTasks)
    /\ \A u \in DOMAIN users : ExactIds(users[u].pendingTasks)

\* ---- C37
\* the users the synchronizer was called for
SyncTargets == {syncArgs.before.assignedUser, syncArgs.after.assignedUser}

\* C37: syncUserPendingStrict changes nothing except the pendingTasks of
\* the user named by before.assignedUser and of the user named by
\* after.assignedUser: every other user's pendingTasks, every user's name
\* and email, and every task are left as they were.
C37_SyncFrame ==
    [][syncRuns' # syncRuns =>
          /\ tasks' = tasks
          /\ DOMAIN users' = DOMAIN users
          /\ \A u \in DOMAIN users :
                /\ users'[u].name = users[u].name
                /\ users'[u].email = users[u].email
                /\ u \notin SyncTargets => users'[u].pendingTasks = users[u].pendingTasks]_vars

\* the task was added to user 1 while user 2, not concerned, holds it too
C37_Witness ==
    /\ syncRuns = 1
    /\ syncArgs.before = NullTask
    /\ syncArgs.after.assignedUser = 1
    /\ ~syncArgs.after.completed
    /\ PendingHas(1, syncArgs.after._id)
    /\ PendingHas(2, syncArgs.after._id)

\* ---- C38
PendingSet(U, u) == {U[u].pendingTasks[i] : i \in DOMAIN U[u].pendingTasks}

\* C38: from every state in which invariants 2 and 3 hold and before is the
\* stored pre-image of the task, the pointwise synchronizer and the
\* broadcast synchronizer leave every user with the same set of
\* pendingTasks, for every (before, after).
C38_PointwiseEqualsBroadcast ==
    syncRuns = 1 =>
        /\ DOMAIN users = DOMAIN syncSnap.broadcast
        /\ \A u \in DOMAIN users : PendingSet(users, u) = PendingSet(syncSnap.broadcast, u)

\* an incomplete task held by its assignee, user 1, is saved without
\* assignee: the pointwise synchronizer pulls it from user 1, the broadcast
\* one from user 1 and then from everybody
C38_Witness ==
    /\ syncRuns = 1
    /\ syncArgs.before.assignedUser = 1 /\ ~syncArgs.before.completed
    /\ syncArgs.after.assignedUser = NoUser /\ ~syncArgs.after.completed
    /\ Holders(syncSnap.pre, TaskIdStr(syncArgs.after._id)) = {1}
    /\ Holders(users, TaskIdStr(syncArgs.after._id)) = {}
    /\ \E u \in DOMAIN users : users[u].pendingTasks # <<>>

\* ---- C39
PutUserOmitsPending ==
    resp.op = "putUser" /\ resp.ubody.pendingTasks.kind = "undefined"

\* C39: a PUT /api/users/:id whose body has no pendingTasks leaves the
\* pendingTasks of that user (and of every other) and the assignedUser of
\* every task as they were; the only task field it changes is
\* assignedUserName, only on tasks assigned to that user, and only when the
\* request changed the user's name.
C39_PutUserWithoutPendingFrame ==
    PutUserOmitsPending =>
        /\ DOMAIN users = DOMAIN resp.preUsers
        /\ \A u \in DOMAIN users : users[u].pendingTasks = resp.preUsers[u].pendingTasks
        /\ DOMAIN tasks = DOMAIN resp.preTasks
        /\ \A t \in DOMAIN tasks :
              /\ tasks[t].assignedUser = resp.preTasks[t].assignedUser
              /\ tasks[t].completed = resp.preTasks[t].completed
              /\ tasks[t].assignedUserName # resp.preTasks[t].assignedUserName =>
                    /\ resp.preTasks[t].assignedUser = resp.id
                    /\ resp.preUsers[resp.id].name # resp.ubody.name
                    /\ tasks[t].assignedUserName = resp.ubody.name

\* a user who holds a task and has a task assigned is renamed by a body
\* without pendingTasks while another task is not assigned to that user
C39_Witness ==
    /\ PutUserOmitsPending
    /\ resp.status = 200
    /\ users[resp.id].pendingTasks # <<>>
    /\ users[resp.id].name # resp.preUsers[resp.id].name
    /\ \E t \in DOMAIN tasks :
          /\ tasks[t].assignedUser = resp.id
          /\ tasks[t].assignedUserName = resp.ubody.name
          /\ resp.preTasks[t].assignedUserName # resp.ubody.name
    /\ \E t \in DOMAIN tasks : tasks[t].assignedUser # resp.id

\* ---- C40
\* the body names an existing user and supplies another name than that user's
NameMismatch(b) ==
    /\ b.assignedUser \in DOMAIN users
    /\ b.assignedUserName # Absent
    /\ b.assignedUserName # users[b.assignedUser].name

\* the logged answer of this step stores the looked-up name
StoresLookedUpName(b) ==
    resp'.status \in {200, 201} =>
        /\ tasks'[resp'.id].assignedUser = b.assignedUser
        /\ tasks'[resp'.id].assignedUserName =
              IF b.assignedUser = NoUser THEN Unassigned ELSE users[b.assignedUser].name

TaskWriteLogged(id, b) ==
    /\ Observing
    /\ resp'.op \in {"postTask", "putTask"}
    /\ \/ resp'.op = "postTask" /\ PostTask(b)
       \/ resp'.op = "putTask" /\ PutTask(id, b)

\* C40 as stated: the assignedUserName stored by POST /api/tasks or
\* PUT /api/tasks/:id is the name of the assigned user as looked up, or
\* "unassigned" without one, and a request supplying another name than the
\* assigned user's is answered 400 and writes nothing.
C40_AssignedNameLookedUp ==
    [][\A id \in TaskIds \cup {BadId} : \A b \in TaskBodies :
          TaskWriteLogged(id, b) =>
              /\ StoresLookedUpName(b)
              /\ NameMismatch(b) =>
                    /\ resp'.status = 400
                    /\ users' = users /\ tasks' = tasks]_vars

\* C40, amended: the same, except that a PUT addressing no stored task is
\* answered 404, before its body is read.
C40_AssignedNameLookedUpOrNotFound ==
    [][\A id \in TaskIds \cup {BadId} : \A b \in TaskBodies :
          TaskWriteLogged(id, b) =>
              /\ StoresLookedUpName(b)
              /\ NameMismatch(b) =>
                    /\ resp'.status =
                          IF resp'.op = "putTask" /\ id \notin DOMAIN tasks THEN 404 ELSE 400
                    /\ users' = users /\ tasks' = tasks]_vars

\* a PUT of a stored task names user 2 and supplies user 1's name: 400, and
\* both collections as they were
C40_Witness ==
    /\ resp.op = "putTask" /\ resp.status = 400 /\ resp.id \in DOMAIN tasks
    /\ resp.body.fields = "valid"
    /\ resp.body.assignedUser \in DOMAIN resp.preUsers
    /\ resp.body.assignedUserName # Absent
    /\ resp.body.assignedUserName # resp.preUsers[resp.body.assignedUser].name
    /\ users = resp.preUsers /\ tasks = resp.preTasks
====
